---- MODULE Spec2Model ----
(***************************************************************************)
(* State-machine model of the conversation/session bridge of the backend   *)
(* (src/main.py, src/services/adk_service.py, src/production_storage.py)   *)
(* and of the Streamlit chat loop (src/streamlit_app.py).                  *)
(*                                                                         *)
(* Python values are modelled as follows.                                  *)
(*   - a text (str) is a sequence of runs [c |-> symbol, n |-> count]; a   *)
(*     symbol is one character of Chars (one of each UTF-8 width, and the  *)
(*     space) or a fixed ASCII phrase of the program, such as an error     *)
(*     message, of which Len gives the number of characters;               *)
(*   - bytes are runs of UTF-8 units;                                      *)
(*   - a path or URL is a sequence of tokens;                              *)
(*   - a dict is a function from its keys; a missing key is a key outside  *)
(*     the DOMAIN; JSON values carry a tag t;                              *)
(*   - the outcome of a call is a record with a kind: "str", "none",       *)
(*     "return", "raise", ...                                              *)
(* Generated ids (uuid4) are fresh ids taken from a counter.  The external *)
(* services (agent server, Firestore, Cloud Storage, the backend seen from *)
(* the Streamlit app) answer nondeterministically where the code handles   *)
(* their failure; the document database, the blob store and the local file *)
(* system keep what was written to them.                                   *)
(***************************************************************************)
EXTENDS Integers, Sequences, FiniteSets, TLC

VARIABLES
    \* ---- production_storage.py: the storage backends
    fs_messages,         \* Firestore collection "messages": id -> document
    fs_conversations,    \* Firestore collection "conversations": id -> document
    gcs_blobs,           \* Cloud Storage bucket: blob path -> uploaded bytes
    local_messages,      \* LocalStorage messages/<id>.json: id -> document
    local_conversations, \* LocalStorage conversations/<id>.json: id -> document
    next_msg,            \* number of message ids generated so far
    clock,               \* datetime.utcnow(), a logical clock
    stored,              \* history: message id -> the arguments of store_message
    st_result,           \* the last storage call and what it returned
    \* ---- production_storage.py: SimpleMessageService.__init__
    svc_env,             \* what the constructor finds: SDK, arguments, environment
    svc,                 \* the constructed service
    \* ---- services/adk_service.py: extract_response_text
    ex_events,           \* the argument: a list of events
    ex_result,           \* what the call returned or raised
    \* ---- the agent server and services/adk_service.py
    adk_sessions,        \* sessions held by the agent server: <<user, id>> -> data
    next_uuid,           \* number of uuid4 ids generated so far
    sess_call,           \* the get_or_create_session call in progress
    agent_posts,         \* history: the POSTs of a message to /run
    stream,              \* the run_agent_streaming generator in progress
    \* ---- main.py: the request being handled
    chat,
    \* ---- streamlit_app.py: the chat loop
    ui,
    \* ---- main.py: the conversation endpoints
    api,                 \* the last request answered and what the handler returned
    \* ---- services/firestore_service.py: FirestoreService
    fss,                 \* the service: db, the collections or the mock dicts
    fss_calls,           \* caller -> the call in progress or its result
    \* ---- services/gcs_service.py and the /upload endpoint of main.py
    gcs_service,         \* the module-level instance
    uploads              \* request -> the upload_file coroutine's position

storage_vars == <<fs_messages, fs_conversations, gcs_blobs, local_messages,
                  local_conversations, next_msg, clock, stored, st_result>>
service_vars == <<svc_env, svc>>
extract_vars == <<ex_events, ex_result>>
session_vars == <<adk_sessions, next_uuid, sess_call>>
stream_vars == <<agent_posts, stream>>
chat_vars == <<chat>>
ui_vars == <<ui>>
api_vars == <<api>>
firestore_vars == <<fss, fss_calls>>
upload_vars == <<gcs_service, uploads>>

vars == <<storage_vars, service_vars, extract_vars, session_vars,
          stream_vars, chat_vars, ui_vars, api_vars, firestore_vars,
          upload_vars>>

\* no conversation endpoint called, no FirestoreService call, no upload
IdleApi == api = [endpoint |-> "none", deleted |-> {}]

IdleFirestore ==
    /\ fss = [db |-> "None", conversations |-> <<>>, messages |-> <<>>,
              uuids |-> 0, now |-> 0, calls |-> 0]
    /\ fss_calls = <<>>

IdleUpload ==
    /\ gcs_service = "None"
    /\ uploads = <<>>

-----------------------------------------------------------------------------
(* Bounds of the model *)

MaxMessages == 2
MaxEvents == 2

-----------------------------------------------------------------------------
(* Python str: texts as runs of symbols *)

Run(c, n) == [c |-> c, n |-> n]

\* a fixed phrase as a text
Txt(phrase) == <<Run(phrase, 1)>>

\* one character of each UTF-8 width, the full stop and the space
Chars == {"a", "b", ".", " ", "e2", "e3", "e4"}

\* number of characters of a symbol
SymLen(c) == IF c \in Chars THEN 1 ELSE Len(c)

\* the bytes str.encode('utf-8') gives a symbol: their number w and their value
Utf8Unit(c) ==
    CASE c = "a"  -> [w |-> 1, b |-> "61"]
      [] c = "b"  -> [w |-> 1, b |-> "62"]
      [] c = "."  -> [w |-> 1, b |-> "2e"]
      [] c = " "  -> [w |-> 1, b |-> "20"]
      [] c = "e2" -> [w |-> 2, b |-> "c3a9"]
      [] c = "e3" -> [w |-> 3, b |-> "e282ac"]
      [] c = "e4" -> [w |-> 4, b |-> "f09f9880"]
      [] OTHER    -> [w |-> Len(c), b |-> c]

\* len(s)
RECURSIVE PyLen(_)
PyLen(s) == IF s = <<>> THEN 0 ELSE Head(s).n * SymLen(Head(s).c) + PyLen(Tail(s))

\* s + t
PyConcat(s, t) ==
    IF s = <<>> THEN t
    ELSE IF t = <<>> THEN s
    ELSE IF s[Len(s)].c = t[1].c /\ t[1].c \in Chars
         THEN SubSeq(s, 1, Len(s) - 1)
              \o <<Run(t[1].c, s[Len(s)].n + t[1].n)>> \o Tail(t)
         ELSE s \o t

\* s[:k]; a phrase cut in the middle keeps the number of characters left of it
RECURSIVE PySlicePrefix(_, _)
PySlicePrefix(s, k) ==
    IF k = 0 \/ s = <<>> THEN <<>>
    ELSE IF Head(s).n * SymLen(Head(s).c) <= k
         THEN <<Head(s)>>
              \o PySlicePrefix(Tail(s), k - Head(s).n * SymLen(Head(s).c))
         ELSE IF Head(s).c \in Chars
              THEN <<Run(Head(s).c, k)>>
              ELSE <<[c |-> Head(s).c, n |-> 1, cut |-> k]>>

\* s.encode('utf-8'): every symbol becomes its bytes
Utf8Encode(s) == [i \in 1..Len(s) |-> [u |-> Utf8Unit(s[i].c), n |-> s[i].n]]

\* len(b) of a bytes object
RECURSIVE BytesLen(_)
BytesLen(b) == IF b = <<>> THEN 0 ELSE Head(b).n * Head(b).u.w + BytesLen(Tail(b))

\* b.decode('utf-8'): every unit becomes the symbol it encodes
Utf8DecodeUnit(u) ==
    IF \E c \in Chars : Utf8Unit(c) = u
    THEN CHOOSE c \in Chars : Utf8Unit(c) = u
    ELSE u.b

Utf8Decode(b) == [i \in 1..Len(b) |-> Run(Utf8DecodeUnit(b[i].u), b[i].n)]

\* s.strip(): the space is the whitespace character
RECURSIVE PyLStrip(_)
PyLStrip(s) == IF s # <<>> /\ Head(s).c = " " THEN PyLStrip(Tail(s)) ELSE s

RECURSIVE PyRStrip(_)
PyRStrip(s) ==
    IF s # <<>> /\ s[Len(s)].c = " "
    THEN PyRStrip(SubSeq(s, 1, Len(s) - 1)) ELSE s

PyStrip(s) == PyRStrip(PyLStrip(s))

\* s.split(): the words between runs of whitespace
RECURSIVE PySplitFrom(_, _)
PySplitFrom(s, word) ==
    IF s = <<>> THEN (IF word = <<>> THEN <<>> ELSE <<word>>)
    ELSE IF Head(s).c = " "
         THEN (IF word = <<>> THEN <<>> ELSE <<word>>) \o PySplitFrom(Tail(s), <<>>)
         ELSE PySplitFrom(Tail(s), word \o <<Head(s)>>)

PySplit(s) == PySplitFrom(s, <<>>)

\* " ".join(words)
RECURSIVE PyJoinWords(_)
PyJoinWords(words) ==
    IF words = <<>> THEN <<>>
    ELSE IF Len(words) = 1 THEN words[1]
    ELSE PyConcat(PyConcat(words[1], <<Run(" ", 1)>>), PyJoinWords(Tail(words)))

-----------------------------------------------------------------------------
(* Python str for paths and URLs: sequences of tokens *)

PyStartsWith(s, p) == Len(s) >= Len(p) /\ SubSeq(s, 1, Len(p)) = p

\* s.replace(old, new): every occurrence, left to right
RECURSIVE PyReplace(_, _, _)
PyReplace(s, old, new) ==
    IF Len(s) < Len(old) THEN s
    ELSE IF SubSeq(s, 1, Len(old)) = old
         THEN new \o PyReplace(SubSeq(s, Len(old) + 1, Len(s)), old, new)
         ELSE <<Head(s)>> \o PyReplace(Tail(s), old, new)

-----------------------------------------------------------------------------
(* production_storage.py: LocalStorage and ProductionStorage *)

size_threshold == 500000
PreviewLen == 200
bucket_name == "bkt"

\* f"msg_{uuid.uuid4().hex[:12]}"
MsgId(k) == <<"msg_", ToString(k)>>

\* f"gs://{self.bucket_name}/"
GsPrefix == <<"gs://", bucket_name, "/">>

\* f"messages/{conversation_id}/{message_id}.txt"
StoragePath(conversation_id, message_id) ==
    <<"messages/">> \o conversation_id \o <<"/">> \o message_id \o <<".txt">>

\* content[:200] + "..." if len(content) > 200 else content
ContentPreview(content) ==
    IF PyLen(content) > PreviewLen
    THEN PyConcat(PySlicePrefix(content, PreviewLen), <<Run(".", 3)>>)
    ELSE content

\* len(content.encode('utf-8'))
ContentSize(content) == BytesLen(Utf8Encode(content))

\* the branch of store_message: inline iff the size is within the threshold
StoreInlineLt(content_size) == content_size < size_threshold
StoreInline(content_size) == content_size <= size_threshold

\* the document ProductionStorage.store_message writes
\* the default of the metadata argument
NoMetadata == [none |-> TRUE]

\* metadata or {}: None becomes the empty dict
MetadataOrEmpty(metadata) ==
    IF "none" \in DOMAIN metadata THEN <<>> ELSE metadata

ProductionMessageDoc(message_id, conversation_id, role, content, metadata, now) ==
    LET content_size == ContentSize(content)
        base == [id |-> message_id, conversation_id |-> conversation_id,
                 role |-> role, timestamp |-> now,
                 content_size |-> content_size,
                 metadata |-> MetadataOrEmpty(metadata)]
    IN IF StoreInline(content_size)
       THEN base @@ [content |-> content, storage_type |-> "firestore"]
       ELSE base @@ [content_url |->
                        GsPrefix \o StoragePath(conversation_id, message_id),
                     storage_type |-> "cloud_storage",
                     content_preview |-> ContentPreview(content)]

\* the document LocalStorage.store_message dumps as JSON
LocalMessageDoc(message_id, conversation_id, role, content, metadata, now) ==
    [id |-> message_id, conversation_id |-> conversation_id, role |-> role,
     content |-> content, timestamp |-> now,
     metadata |-> MetadataOrEmpty(metadata)]

\* the conversation document of create_conversation, in either backend
ConversationDoc(conversation_id, user_id, title, now) ==
    [id |-> conversation_id, user_id |-> user_id, title |-> title,
     created_at |-> now, updated_at |-> now, message_count |-> 0]

NoResult == [op |-> "none"]

IdleStorage ==
    /\ fs_messages = <<>>
    /\ fs_conversations = <<>>
    /\ gcs_blobs = <<>>
    /\ local_messages = <<>>
    /\ local_conversations = <<>>
    /\ next_msg = 0
    /\ clock = 0
    /\ stored = <<>>
    /\ st_result = NoResult

\* datetime.utcnow(): calls of one process follow each other in time
Now(t) == t + 1

\* ProductionStorage.store_message: its effect on the stores
ProductionStore(conversation_id, role, content, metadata) ==
    LET now == Now(clock)
        message_id == MsgId(next_msg + 1)
        doc == ProductionMessageDoc(message_id, conversation_id, role,
                                    content, metadata, now)
    IN /\ clock' = now
       /\ next_msg' = next_msg + 1
       /\ gcs_blobs' =
            IF StoreInline(ContentSize(content)) THEN gcs_blobs
            ELSE (StoragePath(conversation_id, message_id)
                    :> Utf8Encode(content)) @@ gcs_blobs
       /\ fs_messages' = (message_id :> doc) @@ fs_messages
       /\ stored' = (message_id :> [backend |-> "cloud",
                                    conversation_id |-> conversation_id,
                                    role |-> role,
                                    content |-> content]) @@ stored
       /\ st_result' = [op |-> "store", backend |-> "cloud", id |-> message_id]
       /\ UNCHANGED <<local_messages, local_conversations, fs_conversations>>

\* what ProductionStorage.get_message_content returns in the current state
ProductionGetContent(message_id) ==
    IF message_id \notin DOMAIN fs_messages THEN [kind |-> "none"]
    ELSE LET data == fs_messages[message_id] IN
         IF data.storage_type = "firestore"
         THEN [kind |-> "str",
               value |-> IF "content" \in DOMAIN data THEN data.content ELSE <<>>]
         ELSE IF data.storage_type = "cloud_storage"
         THEN LET content_url == IF "content_url" \in DOMAIN data
                                 THEN data.content_url ELSE <<>>
              IN IF PyStartsWith(content_url, <<"gs://">>)
                 THEN LET blob_path == PyReplace(content_url, GsPrefix, <<>>)
                      IN IF blob_path \in DOMAIN gcs_blobs
                         THEN [kind |-> "str",
                               value |-> Utf8Decode(gcs_blobs[blob_path])]
                         ELSE [kind |-> "raise", exc |-> "NotFound"]
                 ELSE [kind |-> "none"]
         ELSE [kind |-> "none"]

\* LocalStorage.store_message: its effect on the stores
LocalStore(conversation_id, role, content, metadata) ==
    LET now == Now(clock)
        message_id == MsgId(next_msg + 1)
    IN /\ clock' = now
       /\ next_msg' = next_msg + 1
       /\ local_messages' =
            (message_id :> LocalMessageDoc(message_id, conversation_id,
                                           role, content, metadata, now))
            @@ local_messages
       /\ stored' = (message_id :> [backend |-> "local",
                                    conversation_id |-> conversation_id,
                                    role |-> role,
                                    content |-> content]) @@ stored
       /\ st_result' = [op |-> "store", backend |-> "local", id |-> message_id]
       /\ UNCHANGED <<fs_messages, gcs_blobs, fs_conversations,
                      local_conversations>>

\* what LocalStorage.get_message_content returns in the current state
LocalGetContent(message_id) ==
    IF message_id \notin DOMAIN local_messages THEN [kind |-> "none"]
    ELSE LET data == local_messages[message_id] IN
         [kind |-> "str",
          value |-> IF "content" \in DOMAIN data THEN data.content ELSE <<>>]

-----------------------------------------------------------------------------
(* production_storage.py: SimpleMessageService *)

\* str.lower() on a string of letters
PyLowerChar(ch) ==
    CASE ch = "T" -> "t" [] ch = "R" -> "r" [] ch = "U" -> "u"
      [] ch = "E" -> "e" [] OTHER -> ch

PyLowerIdentity(str) == str
PyLower(str) == [i \in 1..Len(str) |-> PyLowerChar(str[i])]

\* values of the environment variable USE_CLOUD_STORAGE, as strings of
\* letters; Unset: the variable is not in os.environ
Unset == <<"<unset>">>
UseCloudValues ==
    { Unset, <<>>, <<"t","r","u","e">>, <<"T","r","u","e">>,
      <<"T","R","U","E">>, <<"f","a","l","s","e">>, <<"1">> }

\* os.getenv(name, default)
Getenv(value, default) == IF value = Unset THEN default ELSE value

\* arguments project_id and bucket_name: None, an empty or a non-empty string
StrArgs == { "None", "", "name" }

\* truth value of an Optional[str]
PyTruthy(x) == x \notin {"None", ""}

\* the expression of lines 265-270; Python's `and` is taken for its truth value
UseCloud(env) ==
    /\ env.CLOUD_AVAILABLE
    /\ PyTruthy(env.project_id)
    /\ PyTruthy(env.bucket_name)
    /\ PyLower(Getenv(env.USE_CLOUD_STORAGE, <<"f","a","l","s","e">>))
          = <<"t","r","u","e">>

Unconstructed == [state |-> "unconstructed"]

CloudService ==
    [state |-> "constructed", storage |-> "ProductionStorage",
     storage_type |-> "cloud"]

LocalService ==
    [state |-> "constructed", storage |-> "LocalStorage",
     storage_type |-> "local"]

IdleService ==
    /\ svc_env = [CLOUD_AVAILABLE |-> FALSE, project_id |-> "None",
                  bucket_name |-> "None", USE_CLOUD_STORAGE |-> Unset,
                  production_ctor |-> "ok"]
    /\ svc = Unconstructed

\* ProductionStorage(project_id, bucket_name) builds the two SDK clients;
\* either client constructor may raise (no credentials, no project)
ProductionCtorOutcomes == {"ok", "raise"}

InitService ==
    /\ svc_env \in [CLOUD_AVAILABLE : BOOLEAN, project_id : StrArgs,
                    bucket_name : StrArgs, USE_CLOUD_STORAGE : UseCloudValues,
                    production_ctor : ProductionCtorOutcomes]
    /\ svc = Unconstructed

\* the except branch of the constructor: fall back to LocalStorage
CtorFallback(env) == LocalService

\* add_message_to_conversation: store_message of the selected backend
add_message_to_conversation(conversation_id, role, content) ==
    LET metadata == [attachments |-> <<>>] IN
    IF svc.storage_type = "cloud"
    THEN ProductionStore(conversation_id, role, content, metadata)
    ELSE LocalStore(conversation_id, role, content, metadata)

\* create_conversation of the selected backend; both write the same fields
create_conversation(conversation_id, user_id, title) ==
    LET doc == ConversationDoc(conversation_id, user_id, title, Now(clock)) IN
    /\ clock' = Now(clock)
    /\ IF svc.storage_type = "cloud"
       THEN /\ fs_conversations' = (conversation_id :> doc) @@ fs_conversations
            /\ UNCHANGED local_conversations
       ELSE /\ local_conversations' =
                  (conversation_id :> doc) @@ local_conversations
            /\ UNCHANGED fs_conversations

\* update_conversation_title of the selected backend: what it returns.
\* LocalStorage tests os.path.exists; in the cloud doc_ref.update raises
\* NotFound for a missing document, which the method turns into False
UpdateTitleReturns(conversation_id) ==
    IF svc.storage_type = "cloud"
    THEN conversation_id \in DOMAIN fs_conversations
    ELSE conversation_id \in DOMAIN local_conversations

\* update_conversation_title of the selected backend: its effect
update_conversation_title(conversation_id, title) ==
    LET set(doc) == [doc EXCEPT !.title = title, !.updated_at = Now(clock)] IN
    IF ~UpdateTitleReturns(conversation_id)
    THEN UNCHANGED <<fs_conversations, local_conversations, clock>>
    ELSE /\ clock' = Now(clock)
         /\ IF svc.storage_type = "cloud"
            THEN /\ fs_conversations' =
                      [fs_conversations EXCEPT ![conversation_id] = set(@)]
                 /\ UNCHANGED local_conversations
            ELSE /\ local_conversations' =
                      [local_conversations EXCEPT ![conversation_id] = set(@)]
                 /\ UNCHANGED fs_conversations

-----------------------------------------------------------------------------
(* Python values of JSON events: None, str, int, list and dict *)

PyNone == [t |-> "none"]
PyStr(s) == [t |-> "str", s |-> s]
PyInt(i) == [t |-> "int", i |-> i]
PyList(l) == [t |-> "list", l |-> l]
PyDict(d) == [t |-> "dict", d |-> d]

\* d.get(k, default) and k in d, for a dict d
PyGet(d, k, default) == IF k \in DOMAIN d.d THEN d.d[k] ELSE default
PyHas(d, k) == k \in DOMAIN d.d

\* str(v)
PyStrOf(v) ==
    CASE v.t = "str"  -> v.s
      [] v.t = "none" -> Txt("None")
      [] v.t = "int"  -> Txt(ToString(v.i))
      [] OTHER        -> Txt("<repr>")

\* "".join(parts): a TypeError unless every item is a str
RECURSIVE PyJoin(_)
PyJoin(parts) ==
    IF parts = <<>> THEN [kind |-> "str", value |-> <<>>]
    ELSE IF Head(parts).t # "str" THEN [kind |-> "raise", exc |-> "TypeError"]
    ELSE LET rest == PyJoin(Tail(parts)) IN
         IF rest.kind = "raise" THEN rest
         ELSE [kind |-> "str", value |-> PyConcat(Head(parts).s, rest.value)]

-----------------------------------------------------------------------------
(* services/adk_service.py: ADKService.extract_response_text *)

Apology ==
    Txt("I apologize, but I encountered an issue processing your request. Please try again.")

Appended(items) == [kind |-> "ok", items |-> items]
Raised(exc) == [kind |-> "raise", exc |-> exc]

\* one part of a parts list: what the inner loop appends to response_parts
PartText(part) ==
    IF part.t = "dict" /\ PyHas(part, "text") THEN <<part.d["text"]>>
    ELSE IF part.t = "str" THEN <<part>>
    ELSE <<>>

RECURSIVE PartsTexts(_)
PartsTexts(l) ==
    IF l = <<>> THEN <<>> ELSE PartText(Head(l)) \o PartsTexts(Tail(l))

\* for part in parts: ... for the parts of a content of role "model"; a str
\* is iterated by character and a dict by key, None and int are not iterable
ModelParts(content) ==
    LET parts == PyGet(content, "parts", PyList(<<>>)) IN
    CASE parts.t = "list" -> Appended(PartsTexts(parts.l))
      [] parts.t = "str"  ->
            Appended([i \in 1..Len(parts.s) |-> PyStr(<<parts.s[i]>>)])
      [] parts.t = "dict" /\ parts.d = <<>> -> Appended(<<>>)
      [] parts.t = "dict" /\ parts.d # <<>> -> Appended(<<PyStr(Txt("<key>"))>>)
      [] OTHER -> Raised("TypeError")

IsModelRole(content) == PyGet(content, "role", PyNone) = PyStr(Txt("model"))

\* the elif chain after the two content branches: text, response, message
FieldFallback(event) ==
    IF PyHas(event, "text") THEN Appended(<<event.d["text"]>>)
    ELSE IF PyHas(event, "response")
    THEN Appended(<<PyStr(PyStrOf(event.d["response"]))>>)
    ELSE IF PyHas(event, "message")
    THEN Appended(<<PyStr(PyStrOf(event.d["message"]))>>)
    ELSE Appended(<<>>)

\* the body of the loop for one event: lines 290-322
EventParts(event) ==
    IF event.t # "dict" THEN Appended(<<>>)
    ELSE LET content == PyGet(event, "content", PyDict(<<>>)) IN
    IF content.t # "dict" THEN Raised("AttributeError")
    ELSE IF IsModelRole(content) THEN ModelParts(content)
    ELSE IF PyHas(event, "event")
    THEN IF event.d["event"].t # "dict" THEN Raised("AttributeError")
         ELSE LET nested_content ==
                     PyGet(event.d["event"], "content", PyDict(<<>>)) IN
              IF nested_content.t # "dict" THEN Raised("AttributeError")
              ELSE IF IsModelRole(nested_content)
              THEN ModelParts(nested_content)
              ELSE Appended(<<>>)
    ELSE FieldFallback(event)

\* for event in events: ... ; the first exception ends the loop
RECURSIVE ResponseParts(_)
ResponseParts(events) ==
    IF events = <<>> THEN Appended(<<>>)
    ELSE LET first == EventParts(Head(events)) IN
         IF first.kind = "raise" THEN first
         ELSE LET rest == ResponseParts(Tail(events)) IN
              IF rest.kind = "raise" THEN rest
              ELSE Appended(first.items \o rest.items)

extract_response_text(events) ==
    LET parts == ResponseParts(events) IN
    IF parts.kind = "raise" THEN parts
    ELSE LET joined == PyJoin(parts.items) IN
         IF joined.kind = "raise" THEN joined
         ELSE LET result == PyStrip(joined.value) IN
              IF result = <<>> THEN [kind |-> "str", value |-> Apology]
              ELSE [kind |-> "str", value |-> result]

\* event shapes of the agent server, and shapes a dict event may have
ModelContent(parts) ==
    PyDict([role |-> PyStr(Txt("model")), parts |-> PyList(parts)])

TextPart(s) == PyDict([text |-> PyStr(s)])

TxtA == <<Run("a", 1)>>
TxtB == <<Run("b", 1)>>
TxtSp == <<Run(" ", 1)>>

WellFormedEvents ==
    { PyDict(<<>>),
      PyDict([content |-> ModelContent(<<TextPart(TxtA)>>)]),
      PyDict([content |-> ModelContent(<<TextPart(TxtSp), PyStr(TxtB)>>)]),
      PyDict([content |-> ModelContent(
                  <<PyDict([function_call |-> PyDict(<<>>)])>>)]),
      PyDict([content |-> PyDict([role |-> PyStr(Txt("user")),
                                  parts |-> PyList(<<TextPart(TxtA)>>)])]),
      PyDict([content |-> ModelContent(<<>>), text |-> PyStr(TxtA)]),
      PyDict([event |-> PyDict([content |->
                  ModelContent(<<TextPart(PyConcat(TxtB, TxtSp))>>)])]),
      PyDict([text |-> PyStr(PyConcat(TxtA, TxtSp))]),
      PyDict([response |-> PyStr(TxtB)]),
      PyDict([message |-> PyStr(TxtSp)]) }

IllFormedEvents ==
    { PyDict([content |-> PyStr(TxtA)]),
      PyDict([content |-> PyNone]),
      PyDict([content |-> ModelContent(<<PyDict([text |-> PyNone])>>)]),
      PyDict([text |-> PyNone]) }

EventShapes == WellFormedEvents \cup IllFormedEvents

EventLists == UNION { [1..n -> EventShapes] : n \in 0..MaxEvents }

IdleExtract ==
    /\ ex_events = <<>>
    /\ ex_result = [kind |-> "idle"]

InitExtract ==
    /\ ex_events \in EventLists
    /\ ex_result = [kind |-> "pending"]

-----------------------------------------------------------------------------
(* The agent server's sessions and services/adk_service.py: get_session,   *)
(* create_session, get_or_create_session                                   *)

MaxCalls == 2

Users == {"dev-user-123", "user-2"}
KnownSessionIds == {"s1", "s2"}

\* the session_id argument: None, an empty string or an id
SessionIdArgs == {"None", ""} \cup KnownSessionIds

\* str(uuid.uuid4())
Uuid(k) == "uuid-" \o ToString(k)

\* the JSON of a session: one with history ("used") or one just created ("new")
SessionData(user_id, session_id, state) ==
    [id |-> session_id, userId |-> user_id, state |-> state]

ExistingSessions ==
    { [k \in keys |-> SessionData(k[1], k[2], "used")] :
          keys \in SUBSET (Users \X KnownSessionIds) }

NoCall == [pc |-> "idle", n |-> 0]

IdleSession ==
    /\ adk_sessions = <<>>
    /\ next_uuid = 0
    /\ sess_call = NoCall

InitSession ==
    /\ adk_sessions \in ExistingSessions
    /\ next_uuid = 0
    /\ sess_call = NoCall

\* the answers of GET .../sessions/{id}: 200 with the session's JSON when it
\* exists, 404 when it does not, and a server error or a transport error
\* (connection refused, timeout) at any time
GetReplies(user_id, session_id) ==
    (IF <<user_id, session_id>> \in DOMAIN adk_sessions
     THEN {"200"} ELSE {"404"}) \cup {"500", "transport_error"}

\* get_session: the JSON for 200, None for 404, the exception otherwise
get_session(user_id, session_id, reply) ==
    CASE reply = "200" ->
            [kind |-> "return", value |-> adk_sessions[<<user_id, session_id>>]]
      [] reply = "404" -> [kind |-> "none"]
      [] OTHER -> [kind |-> "raise", exc |-> reply]

\* the answers of POST .../sessions/{id}: the server creates the session; for
\* an id that exists it either rejects the request or replaces the session
CreateReplies(user_id, session_id) ==
    (IF <<user_id, session_id>> \in DOMAIN adk_sessions
     THEN {"400", "200"} ELSE {"200"}) \cup {"500", "transport_error"}

\* if not session_id: session_id = str(uuid.uuid4())
ResolveSessionId(session_id, k) ==
    IF session_id \in {"None", ""} THEN Uuid(k) ELSE session_id

\* get_or_create_session up to its first await
SessionBegin(user_id, session_id) ==
    LET fresh == session_id \in {"None", ""}
        sid == ResolveSessionId(session_id, next_uuid + 1)
    IN /\ next_uuid' = IF fresh THEN next_uuid + 1 ELSE next_uuid
       /\ sess_call' = [pc |-> "get", n |-> sess_call.n + 1,
                        user_id |-> user_id, given |-> session_id,
                        session_id |-> sid,
                        existed |-> <<user_id, sid>> \in DOMAIN adk_sessions,
                        before |-> adk_sessions,
                        got |-> "pending", creates |-> 0,
                        value |-> <<>>, exc |-> ""]
       /\ UNCHANGED adk_sessions

\* whether the outcome of get_session ends the call: `if session_data`
\* inside try ... except Exception: pass
SessionFound(got) == got.kind = "return"

\* lines 341-346: await get_session
SessionGet ==
    /\ sess_call.pc = "get"
    /\ \E reply \in GetReplies(sess_call.user_id, sess_call.session_id) :
         LET got == get_session(sess_call.user_id, sess_call.session_id, reply)
         IN sess_call' =
              IF SessionFound(got)
              THEN [sess_call EXCEPT !.pc = "returned", !.got = got.kind,
                                     !.value = got.value]
              ELSE [sess_call EXCEPT !.pc = "create", !.got = got.kind]
    /\ UNCHANGED <<adk_sessions, next_uuid>>

\* lines 348-350: await create_session, which re-raises what the POST raised
SessionCreate ==
    /\ sess_call.pc = "create"
    /\ \E reply \in CreateReplies(sess_call.user_id, sess_call.session_id) :
         LET key == <<sess_call.user_id, sess_call.session_id>>
             data == SessionData(sess_call.user_id, sess_call.session_id, "new")
         IN IF reply = "200"
            THEN /\ adk_sessions' = (key :> data) @@ adk_sessions
                 /\ sess_call' = [sess_call EXCEPT !.pc = "returned",
                                     !.creates = @ + 1, !.value = data]
            ELSE /\ adk_sessions' = adk_sessions
                 /\ sess_call' = [sess_call EXCEPT !.pc = "raised",
                                     !.creates = @ + 1, !.exc = reply]
    /\ UNCHANGED next_uuid

-----------------------------------------------------------------------------
(* services/adk_service.py: run_agent and run_agent_streaming *)

\* the part of the message an attachment URL contributes (lines 98-121):
\* a file part when the file exists and is uploaded, a text reference when
\* the upload raises, nothing when the file does not exist
AttachmentPart(url) ==
    CASE url = "/uploads/ok.pdf"  -> <<[file_data |-> url]>>
      [] url = "/uploads/bad.pdf" -> <<[text |-> "[Attachment: bad.pdf]"]>>
      [] OTHER -> <<>>

RECURSIVE AttachmentParts(_)
AttachmentParts(attachments) ==
    IF attachments = <<>> THEN <<>>
    ELSE AttachmentPart(Head(attachments)) \o AttachmentParts(Tail(attachments))

\* the payload of POST /run
Payload(user_id, session_id, message, attachments) ==
    [user_id |-> user_id, session_id |-> session_id,
     parts |-> <<[text |-> message]>> \o AttachmentParts(attachments)]

\* the event lists an agent run produces
ModelEvent(s) == PyDict([content |-> ModelContent(<<TextPart(s)>>)])
AgentEventLists ==
    { <<>>, <<ModelEvent(TxtA)>>,
      <<PyDict([content |-> ModelContent(
                  <<PyDict([function_call |-> PyDict(<<>>)])>>)]),
        ModelEvent(TxtB)>> }

\* the answers of a plain POST /run: a JSON body (a list of events, one
\* event, something else), an error status, or a transport error
AgentReplies ==
    { [kind |-> "json", body |-> PyList(l)] : l \in AgentEventLists }
    \cup { [kind |-> "json", body |-> ModelEvent(TxtA)],
           [kind |-> "json", body |-> PyStr(TxtA)],
           [kind |-> "status", code |-> 404],
           [kind |-> "status", code |-> 500],
           [kind |-> "connect_error"],
           [kind |-> "request_error"],
           [kind |-> "invalid_json"] }

\* run_agent: the events it returns or the Exception it raises (lines 136-169)
run_agent(reply) ==
    CASE reply.kind = "json" /\ reply.body.t = "dict" ->
            [kind |-> "return", events |-> <<reply.body>>]
      [] reply.kind = "json" /\ reply.body.t = "list" ->
            [kind |-> "return", events |-> reply.body.l]
      [] reply.kind = "json" /\ reply.body.t \notin {"dict", "list"} ->
            [kind |-> "return", events |-> <<>>]
      [] reply.kind = "status" /\ reply.code = 404 ->
            [kind |-> "raise", msg |-> Txt("ADK server not found. Please start the ADK server with: python -m google.adk.agents.server --app academic-research --port 8000")]
      [] reply.kind = "status" /\ reply.code # 404 ->
            [kind |-> "raise", msg |-> Txt("ADK server error: " \o ToString(reply.code) \o " - <body>")]
      [] reply.kind = "connect_error" ->
            [kind |-> "raise", msg |-> Txt("Cannot connect to ADK server. Please ensure the ADK server is running on port 8000")]
      [] reply.kind = "request_error" ->
            [kind |-> "raise", msg |-> Txt("ADK request failed: <error>")]
      [] OTHER ->
            [kind |-> "raise", msg |-> Txt("ADK service error: <error>")]

\* one POST of a message to /run, as the history records it
Post(streaming, user_id, session_id, message, attachments) ==
    [streaming |-> streaming,
     payload |-> Payload(user_id, session_id, message, attachments)]

\* a line of a streamed response body (lines 234-257)
StreamLines ==
    { [form |-> "blank"],
      [form |-> "data", json |-> "valid", event |-> ModelEvent(TxtA)],
      [form |-> "data", json |-> "invalid"],
      [form |-> "event"],
      [form |-> "raw", json |-> "valid", event |-> ModelEvent(TxtB)],
      [form |-> "raw", json |-> "invalid"] }

\* what one line makes the generator yield
LineYields(line) ==
    IF line.form \in {"data", "raw"} /\ line.json = "valid"
    THEN <<line.event>> ELSE <<>>

StreamBodies == UNION { [1..n -> StreamLines] : n \in 0..MaxEvents }

\* the answers of the streaming POST /run: a response whose body is read
\* line by line and ends normally or with a read error, an error status, a
\* refused connection, or another transport error (a timeout)
StreamReplies ==
    { [kind |-> "stream", lines |-> b, tail |-> t] :
          b \in StreamBodies, t \in {"eof", "read_error"} }
    \cup { [kind |-> "status", code |-> 404],
           [kind |-> "status", code |-> 500],
           [kind |-> "connect_error"],
           [kind |-> "request_error"] }

\* e.response.text in the handler of httpx.HTTPStatusError (line 260): the
\* response of client.stream() was never read, and httpx raises
\* ResponseNotRead for the text of such a response
StreamedResponseText == [kind |-> "raise", exc |-> "ResponseNotRead"]

\* the except clauses of run_agent_streaming (lines 259-278): what the
\* generator does after the streaming request failed
StreamFailure(reply) ==
    CASE reply.kind = "status" ->
            IF StreamedResponseText.kind = "raise"
            THEN [pc |-> "raised", exc |-> StreamedResponseText.exc]
            ELSE IF reply.code = 404
                 THEN [pc |-> "fallback", exc |-> ""]
                 ELSE [pc |-> "raised", exc |-> "ADK streaming error"]
      [] reply.kind = "connect_error" ->
            [pc |-> "raised", exc |-> "Cannot connect to ADK server"]
      [] OTHER -> [pc |-> "fallback", exc |-> ""]

NoStream == [pc |-> "idle", n |-> 0]

IdleStream ==
    /\ agent_posts = <<>>
    /\ stream = NoStream

Messages == {TxtA, TxtB}
AttachmentLists == {<<>>, <<"/uploads/ok.pdf", "/uploads/bad.pdf">>}

\* run_agent_streaming(...) called and iterated: up to the request
run_agent_streaming ==
    /\ stream.pc \in {"idle", "done", "raised"}
    /\ stream.n < MaxCalls
    /\ \E message \in Messages, attachments \in AttachmentLists :
         stream' = [pc |-> "post", n |-> stream.n + 1,
                    user_id |-> "dev-user-123", session_id |-> "s1",
                    message |-> message, attachments |-> attachments,
                    reply |-> [kind |-> "none"], lines |-> <<>>,
                    yielded |-> <<>>, streamed |-> 0,
                    fallback |-> [kind |-> "none"], exc |-> ""]
    /\ agent_posts' = <<>>
    /\ UNCHANGED <<storage_vars, service_vars, extract_vars, session_vars,
                   chat_vars, ui_vars,
                   api_vars, firestore_vars, upload_vars>>

\* lines 223-232: the streaming POST and raise_for_status
run_agent_streaming_post ==
    /\ stream.pc = "post"
    /\ \E reply \in StreamReplies :
         /\ agent_posts' = Append(agent_posts,
                Post(TRUE, stream.user_id, stream.session_id, stream.message,
                     stream.attachments))
         /\ stream' =
              IF reply.kind = "stream"
              THEN [stream EXCEPT !.pc = "streaming", !.reply = reply,
                                  !.lines = reply.lines]
              ELSE [stream EXCEPT !.pc = StreamFailure(reply).pc,
                                  !.exc = StreamFailure(reply).exc,
                                  !.reply = reply]
    /\ UNCHANGED <<storage_vars, service_vars, extract_vars, session_vars,
                   chat_vars, ui_vars,
                   api_vars, firestore_vars, upload_vars>>

\* lines 234-257: one line of the body, or its end
run_agent_streaming_line ==
    /\ stream.pc = "streaming"
    /\ agent_posts' = agent_posts
    /\ stream' =
         IF stream.lines # <<>>
         THEN [stream EXCEPT
                 !.lines = Tail(@),
                 !.yielded = @ \o LineYields(Head(stream.lines)),
                 !.streamed = @ + Len(LineYields(Head(stream.lines)))]
         ELSE IF stream.reply.tail = "eof"
              THEN [stream EXCEPT !.pc = "done"]
              ELSE [stream EXCEPT
                      !.pc = StreamFailure([kind |-> "read_error"]).pc]
    /\ UNCHANGED <<storage_vars, service_vars, extract_vars, session_vars,
                   chat_vars, ui_vars,
                   api_vars, firestore_vars, upload_vars>>

\* lines 264-266 and 276-278: the fallback to run_agent
run_agent_streaming_fallback ==
    /\ stream.pc = "fallback"
    /\ \E reply \in AgentReplies :
         LET result == run_agent(reply) IN
         /\ agent_posts' = Append(agent_posts,
                Post(FALSE, stream.user_id, stream.session_id, stream.message,
                     stream.attachments))
         /\ stream' =
              IF result.kind = "return"
              THEN [stream EXCEPT !.pc = "done", !.fallback = result,
                                  !.yielded = @ \o result.events]
              ELSE [stream EXCEPT !.pc = "raised", !.fallback = result,
                                  !.exc = "run_agent"]
    /\ UNCHANGED <<storage_vars, service_vars, extract_vars, session_vars,
                   chat_vars, ui_vars,
                   api_vars, firestore_vars, upload_vars>>

-----------------------------------------------------------------------------
(* main.py and middleware/error_handler.py: the request handlers *)

MaxRequests == 2

\* get_current_user: the mock user of every request
CurrentUser == "dev-user-123"

HTTPException(status_code, detail) ==
    [status_code |-> status_code, detail |-> detail]

\* str(exc) of an HTTPException: "<status_code>: <detail>"
StrOfHTTPException(exc) == ToString(exc.status_code) \o ": " \o exc.detail

\* middleware/error_handler.py: the response made from an HTTPException
http_exception_handler(exc) ==
    [status_code |-> exc.status_code,
     content |-> [error |-> "HTTP Error", message |-> exc.detail,
                  status_code |-> exc.status_code]]

\* an HTTPException raised inside the handler's try block: the handler's
\* own `except Exception as e` catches it (HTTPException is an Exception)
\* and raises HTTPException(500, detail=str(e)) in its place
RaisedInTry(exc) == HTTPException(500, StrOfHTTPException(exc))

\* any other exception raised inside the try block
OtherRaisedInTry(message) == HTTPException(500, message)

\* `if not user_input`
Falsy(v) == v.t = "none" \/ (v.t = "str" /\ v.s = <<>>)

\* " ".join(user_input.split()[:4]) + ("..." if more than 4 words)
Title(user_input) ==
    LET words == PySplit(user_input)
        first == SubSeq(words, 1, IF Len(words) < 4 THEN Len(words) ELSE 4)
    IN PyConcat(PyJoinWords(first),
                IF Len(words) > 4 THEN Txt("...") ELSE <<>>)

\* the activity tracker of a request: lines 277-288
InitialTracker ==
    [current_step |-> "initializing",
     steps |-> <<"in_progress", "pending", "pending", "pending", "pending">>,
     progress_percentage |-> 10]

\* lines 298-302
SessionSetupTracker(t) ==
    [t EXCEPT !.current_step = "session_setup",
              !.steps = [@ EXCEPT ![1] = "completed", ![2] = "in_progress"],
              !.progress_percentage = 20]

\* analyze_agent_events(events), line 378: no module defines or imports the
\* name, and the call raises NameError
analyze_agent_events(events) ==
    [kind |-> "raise",
     msg |-> Txt("name 'analyze_agent_events' is not defined")]

\* f"RFP Agent Error: {str(rfp_error)}"
AgentErrorMessageBare(msg) == msg
AgentErrorMessage(msg) == PyConcat(Txt("RFP Agent Error: "), msg)

\* lines 374-443: what the try block around the agent run comes to, given
\* what run_agent returned or raised
AgentTurn(result) ==
    IF result.kind = "raise" THEN [kind |-> "error", msg |-> result.msg]
    ELSE LET analysis == analyze_agent_events(result.events) IN
         IF analysis.kind = "raise"
         THEN [kind |-> "error", msg |-> analysis.msg]
         ELSE LET text == extract_response_text(result.events) IN
              IF text.kind = "raise"
              THEN [kind |-> "error", msg |-> Txt(text.exc)]
              ELSE [kind |-> "ok", text |-> text.value]

\* the content of the assistant message of the turn
AssistantContent(turn) ==
    IF turn.kind = "error" THEN AgentErrorMessage(turn.msg) ELSE turn.text

\* the value the handler returns after the agent run: lines 416-422, 437-443
ErrorBody(turn, session_id, conversation_id, tracker) ==
    [response |-> AgentErrorMessage(turn.msg), session_id |-> session_id,
     conversation_id |-> conversation_id, error |-> TRUE,
     activity_tracker |-> [tracker EXCEPT !.current_step = "error"]]

TurnBody(turn, session_id, conversation_id, tracker) ==
    IF turn.kind = "error"
    THEN ErrorBody(turn, session_id, conversation_id, tracker)
    ELSE [response |-> turn.text, session_id |-> session_id,
          conversation_id |-> conversation_id,
          agent_type |-> "rfp_research",
          activity_tracker |-> [tracker EXCEPT
                                  !.current_step = "completed",
                                  !.progress_percentage = 100]]

\* the request body of POST /rfp-chat
FiveWords ==
    <<Run("a", 1), Run(" ", 1), Run("b", 1), Run(" ", 2), Run("a", 2),
      Run(" ", 1), Run("b", 2), Run(" ", 1), Run("e2", 1)>>

\* the requests: without user_input (absent or empty), with streaming
\* asked for, and plain turns without and with session, conversation and
\* attachment
Turn(user_input, session_id, conversation_id, streaming, attachments) ==
    [user_input |-> user_input, session_id |-> session_id,
     conversation_id |-> conversation_id, streaming |-> streaming,
     attachments |-> attachments]

Requests ==
    { Turn(PyNone, "None", <<>>, FALSE, <<>>),
      Turn(PyStr(<<>>), "s1", <<"c1">>, FALSE, <<>>),
      Turn(PyStr(TxtA), "None", <<>>, TRUE, <<>>),
      Turn(PyStr(FiveWords), "None", <<>>, FALSE, <<>>),
      Turn(PyStr(TxtA), "s1", <<"c1">>, FALSE, <<"/uploads/ok.pdf">>) }

Stores ==
    <<fs_messages, fs_conversations, gcs_blobs, local_messages,
      local_conversations, adk_sessions>>

NoRequest ==
    [pc |-> "idle", n |-> 0, endpoint |-> "", request |-> <<>>,
     before |-> <<>>, session_id |-> "", conversation_id |-> <<>>,
     tracker |-> InitialTracker, processed_attachments |-> <<>>,
     agent |-> [kind |-> "none"], response |-> [status_code |-> 0]]

IdleChat == chat = NoRequest

InitChat ==
    /\ chat = NoRequest
    /\ svc_env = [CLOUD_AVAILABLE |-> FALSE, project_id |-> "None",
                  bucket_name |-> "None", USE_CLOUD_STORAGE |-> Unset,
                  production_ctor |-> "ok"]
    /\ svc \in {CloudService, LocalService}
    /\ adk_sessions \in
          { [k \in keys |-> SessionData(k[1], k[2], "used")] :
                keys \in SUBSET {<<CurrentUser, "s1">>} }
    /\ next_uuid = 0
    /\ sess_call = NoCall

Accepting == chat.pc \in {"idle", "responded"} /\ chat.n < MaxRequests

Respond(c, exc) ==
    [c EXCEPT !.pc = "responded", !.response = http_exception_handler(exc)]

\* POST /rfp-chat, lines 264-307: up to the first await
rfp_chat_endpoint ==
    /\ Accepting
    /\ \E request \in Requests :
       LET c == [NoRequest EXCEPT !.n = chat.n + 1, !.endpoint = "/rfp-chat",
                                  !.request = request, !.before = Stores,
                                  !.session_id = request.session_id,
                                  !.conversation_id = request.conversation_id]
       IN IF Falsy(request.user_input)
          THEN /\ chat' = Respond(c, RaisedInTry(
                              HTTPException(400, "user_input is required")))
               /\ UNCHANGED session_vars
          ELSE IF request.streaming
          THEN /\ chat' = Respond(c, OtherRaisedInTry(
                              "name 'StreamingResponse' is not defined"))
               /\ UNCHANGED session_vars
          ELSE /\ chat' = [c EXCEPT !.pc = "session",
                                    !.tracker = SessionSetupTracker(@)]
               /\ SessionBegin(CurrentUser, request.session_id)
    /\ agent_posts' = <<>>
    /\ UNCHANGED <<storage_vars, service_vars, extract_vars, stream, ui_vars,
                   api_vars, firestore_vars, upload_vars>>

\* lines 304-315: get_or_create_session has returned or raised
rfp_chat_after_session ==
    /\ chat.pc = "session"
    /\ sess_call.pc \in {"returned", "raised"}
    /\ chat' =
         IF sess_call.pc = "raised"
         THEN Respond(chat, OtherRaisedInTry(sess_call.exc))
         ELSE [chat EXCEPT
                 !.session_id = sess_call.session_id,
                 !.pc = IF chat.conversation_id = <<>>
                        THEN "create_conversation" ELSE "store_user"]
    /\ UNCHANGED <<storage_vars, session_vars, agent_posts,
                   api_vars, firestore_vars, upload_vars>>
    /\ UNCHANGED <<service_vars, extract_vars, stream, ui_vars,
                   api_vars, firestore_vars, upload_vars>>

\* lines 310-315: no conversation_id given
rfp_chat_new_conversation ==
    /\ chat.pc = "create_conversation"
    /\ LET conversation_id == <<"rfp_", Uuid(next_uuid + 1)>> IN
       /\ create_conversation(conversation_id, CurrentUser,
                              Title(chat.request.user_input.s))
       /\ chat' = [chat EXCEPT !.pc = "store_user",
                               !.conversation_id = conversation_id]
    /\ next_uuid' = next_uuid + 1
    /\ UNCHANGED <<fs_messages, gcs_blobs, local_messages, next_msg, stored,
                   st_result, adk_sessions, sess_call, agent_posts>>
    /\ UNCHANGED <<service_vars, extract_vars, stream, ui_vars,
                   api_vars, firestore_vars, upload_vars>>

\* lines 317-328: the user message
rfp_chat_user_message ==
    /\ chat.pc = "store_user"
    /\ add_message_to_conversation(chat.conversation_id, "user",
                                   chat.request.user_input.s)
    /\ chat' =
         IF chat.request.attachments # <<>>
         THEN [chat EXCEPT !.pc = "attachments",
                  !.tracker = [@ EXCEPT
                      !.current_step = "processing_attachments",
                      !.progress_percentage = 30]]
         ELSE [chat EXCEPT !.pc = "agent"]
    /\ UNCHANGED <<session_vars, agent_posts,
                   api_vars, firestore_vars, upload_vars>>
    /\ UNCHANGED <<service_vars, extract_vars, stream, ui_vars,
                   api_vars, firestore_vars, upload_vars>>

\* lines 331-366: the session is read for a request_id, which the session
\* JSON of the agent server does not carry at its top level, and every
\* attachment URL is passed on as it is; a failure of the read is ignored
rfp_chat_process_attachments ==
    /\ chat.pc = "attachments"
    /\ \E reply \in GetReplies(CurrentUser, chat.session_id) :
         chat' = [chat EXCEPT !.pc = "agent",
                     !.processed_attachments = chat.request.attachments]
    /\ UNCHANGED <<storage_vars, session_vars, agent_posts,
                   api_vars, firestore_vars, upload_vars>>
    /\ UNCHANGED <<service_vars, extract_vars, stream, ui_vars,
                   api_vars, firestore_vars, upload_vars>>

\* lines 368-443: the agent run, the assistant message and the response
rfp_chat_run_agent ==
    /\ chat.pc = "agent"
    /\ \E reply \in AgentReplies :
         LET result == run_agent(reply)
             turn == AgentTurn(result)
             tracker == [chat.tracker EXCEPT
                            !.current_step = "agent_processing",
                            !.progress_percentage = 50]
         IN /\ agent_posts' = Append(agent_posts,
                   Post(FALSE, CurrentUser, chat.session_id,
                        chat.request.user_input.s,
                        chat.processed_attachments))
            /\ add_message_to_conversation(chat.conversation_id, "assistant",
                                           AssistantContent(turn))
            /\ chat' = [chat EXCEPT
                  !.pc = "responded", !.agent = result,
                  !.response = [status_code |-> 200,
                                content |-> TurnBody(turn, chat.session_id,
                                              chat.conversation_id, tracker)]]
    /\ UNCHANGED session_vars
    /\ UNCHANGED <<service_vars, extract_vars, stream, ui_vars,
                   api_vars, firestore_vars, upload_vars>>

TitleTargets == {<<"c1">>, <<"rfp_", Uuid(1)>>}

\* PUT /conversations/{conversation_id}/title, lines 164-179
put_conversation_title ==
    /\ Accepting
    /\ \E conversation_id \in TitleTargets, title \in {TxtB} :
       /\ update_conversation_title(conversation_id, title)
       /\ chat' = [NoRequest EXCEPT
          !.pc = "responded", !.n = chat.n + 1,
          !.endpoint = "/conversations/{id}/title",
          !.request = [conversation_id |-> conversation_id, title |-> title],
          !.before = Stores,
          !.response =
              IF UpdateTitleReturns(conversation_id)
              THEN [status_code |-> 200,
                    content |-> [message |-> "Title updated successfully"]]
              ELSE http_exception_handler(RaisedInTry(
                       HTTPException(404, "Conversation not found")))]
    /\ UNCHANGED <<fs_messages, gcs_blobs, local_messages, next_msg, stored,
                   st_result, session_vars, agent_posts,
                   api_vars, firestore_vars, upload_vars>>
    /\ UNCHANGED <<service_vars, extract_vars, stream, ui_vars,
                   api_vars, firestore_vars, upload_vars>>

-----------------------------------------------------------------------------
(* streamlit_app.py: the chat loop *)

MaxTurns == 2

Prompts == {TxtA, FiveWords}

\* f"conv_{counter:04d}"
LocalConversationId(counter) == <<"conv_", ToString(counter)>>

\* the lines of the body of a streamed /rfp-chat response, as
\* process_streaming_response tells them apart (lines 136-169)
UiEvents ==
    { [type |-> "thinking", step |-> "Analyzing"],
      [type |-> "response", content |-> TxtB, session_id |-> "s1",
       conversation_id |-> <<"rfp_", "uuid-1">>],
      [type |-> "error", message |-> Txt("Error: <error>")],
      [step |-> "Analyzing"] }

UiLines ==
    { [form |-> "blank"], [form |-> "other"],
      [form |-> "data", json |-> "invalid"] }
    \cup { [form |-> "data", json |-> "valid", data |-> e] : e \in UiEvents }

UiBodies == UNION { [1..n -> UiLines] : n \in 0..MaxEvents }

\* what requests.post comes to: an exception (no connection, timeout), a
\* status other than 200, or 200 with a body that is read line by line and
\* ends normally or with a read error
BackendReplies ==
    { [kind |-> "exception"], [kind |-> "status", code |-> 500],
      [kind |-> "status", code |-> 404] }
    \cup { [kind |-> "status", code |-> 200, lines |-> b, tail |-> t] :
              b \in UiBodies, t \in {"eof", "read_error"} }

\* send_rfp_chat_message(..., streaming=True): the response for 200, None
\* for any other status and for an exception
send_rfp_chat_message(reply) ==
    IF reply.kind = "status" /\ reply.code = 200
    THEN [kind |-> "response", lines |-> reply.lines, tail |-> reply.tail]
    ELSE [kind |-> "none"]

StreamingError(e) ==
    [kind |-> "dict",
     d |-> [error |-> TRUE,
            response |-> PyConcat(Txt("Streaming error: "), Txt(e))]]

\* process_streaming_response: the final_result it returns
RECURSIVE ProcessLines(_, _)
ProcessLines(lines, tail) ==
    IF lines = <<>>
    THEN IF tail = "eof" THEN [kind |-> "none"]
         ELSE StreamingError("<error>")
    ELSE LET line == Head(lines) IN
         IF line.form # "data" \/ line.json = "invalid"
         THEN ProcessLines(Tail(lines), tail)
         ELSE LET data == line.data IN
              IF "type" \notin DOMAIN data THEN StreamingError("'type'")
              ELSE IF data.type = "thinking"
              THEN ProcessLines(Tail(lines), tail)
              ELSE IF data.type = "response"
              THEN [kind |-> "dict",
                    d |-> [response |-> data.content,
                           session_id |-> data.session_id,
                           conversation_id |-> data.conversation_id]]
              ELSE IF data.type = "error"
              THEN [kind |-> "dict",
                    d |-> [error |-> TRUE, response |-> data.message]]
              ELSE ProcessLines(Tail(lines), tail)

process_streaming_response(response) ==
    ProcessLines(response.lines, response.tail)

\* generate_local_response: always a string (lines 178-221)
LocalResponses ==
    { Txt("Please set GOOGLE_API_KEY environment variable to use AI responses."),
      Txt("<model text>"),
      Txt("AI Error: <error>. Please check your GOOGLE_API_KEY environment variable.") }

\* dict.get(key, default) on a final_result
GetOr(d, key, default) == IF key \in DOMAIN d THEN d[key] ELSE default

UiMessage(role, content) == [role |-> role, content |-> content]

\* the conv_data of a conversation created locally (lines 658-666)
LocalConvData(id, title) ==
    [id |-> id, title |-> title, user_id |-> "local-user",
     messages |-> <<>>, message_count |-> 0]

NoUi ==
    [pc |-> "idle", n |-> 0, messages |-> <<>>,
     current_conversation_id |-> <<>>, adk_session_id |-> "None",
     conversation_counter |-> 1, local_conversations |-> <<>>,
     files |-> <<>>, prompt |-> <<>>, result |-> [kind |-> "none"],
     final_result |-> [kind |-> "none"], turn_start |-> 0, mode |-> ""]

IdleUi == ui = NoUi
InitUi == ui = NoUi

\* lines 619-668: a prompt is submitted; the user message is appended and,
\* if there is no current conversation, one is created and saved
chat_input ==
    /\ ui.pc \in {"idle", "done"}
    /\ ui.n < MaxTurns
    /\ \E prompt \in Prompts :
       LET id == LocalConversationId(ui.conversation_counter)
           create == ui.current_conversation_id = <<>>
           data == LocalConvData(id, Title(prompt))
       IN ui' = [ui EXCEPT
            !.pc = "send", !.n = @ + 1, !.prompt = prompt,
            !.messages = Append(@, UiMessage("user", prompt)),
            !.turn_start = Len(ui.messages) + 1,
            !.current_conversation_id = IF create THEN id ELSE @,
            !.conversation_counter = IF create THEN @ + 1 ELSE @,
            !.local_conversations = IF create THEN (id :> data) @@ @ ELSE @,
            !.files = IF create THEN (id :> data) @@ @ ELSE @,
            !.result = [kind |-> "none"],
            !.final_result = [kind |-> "none"], !.mode = ""]
    /\ UNCHANGED <<storage_vars, service_vars, extract_vars, session_vars,
                   stream_vars, chat_vars,
                   api_vars, firestore_vars, upload_vars>>

\* lines 688-703: the request; `if result:` has no else branch, and with no
\* result the script ends
chat_send ==
    /\ ui.pc = "send"
    /\ \E reply \in BackendReplies :
         LET result == send_rfp_chat_message(reply) IN
         ui' = [ui EXCEPT !.result = result,
                          !.pc = IF result.kind = "none" THEN "done"
                                 ELSE "process"]
    /\ UNCHANGED <<storage_vars, service_vars, extract_vars, session_vars,
                   stream_vars, chat_vars,
                   api_vars, firestore_vars, upload_vars>>

\* the update of the in-memory conversation (lines 726-727, 752-753)
UpdateLocalConversation(conversations, id, messages) ==
    IF id \in DOMAIN conversations
    THEN [conversations EXCEPT ![id].messages = messages]
    ELSE conversations

\* lines 704-758: the stream is processed and the assistant message of the
\* backend, or of generate_local_response, is appended
chat_process ==
    /\ ui.pc = "process"
    /\ LET final_result == process_streaming_response(ui.result) IN
       IF final_result.kind = "dict"
       THEN LET d == final_result.d
                id == GetOr(d, "conversation_id", ui.current_conversation_id)
                messages == Append(ui.messages,
                                UiMessage("assistant", GetOr(d, "response", <<>>)))
            IN ui' = [ui EXCEPT
                 !.pc = "done", !.final_result = final_result,
                 !.mode = "backend", !.messages = messages,
                 !.current_conversation_id = id,
                 !.adk_session_id = GetOr(d, "session_id", @),
                 !.local_conversations =
                     UpdateLocalConversation(@, id, messages)]
       ELSE \E response_text \in LocalResponses :
            LET messages == Append(ui.messages,
                                UiMessage("assistant", response_text))
            IN ui' = [ui EXCEPT
                 !.pc = "done", !.final_result = final_result,
                 !.mode = "local", !.messages = messages,
                 !.local_conversations =
                     UpdateLocalConversation(@, ui.current_conversation_id,
                                             messages)]
    /\ UNCHANGED <<storage_vars, service_vars, extract_vars, session_vars,
                   stream_vars, chat_vars,
                   api_vars, firestore_vars, upload_vars>>

-----------------------------------------------------------------------------
(* The storage backends called directly *)

\* conversation ids are caller-chosen strings (request body of /rfp-chat)
ConversationIds == { <<"c1">>, <<"gs://", bucket_name, "/", "c2">> }

Roles == {"user", "assistant"}

\* the role is written as it is given; the direct calls store as "user"
DirectRoles == {"user"}

\* contents below, at and above the threshold, in 1- to 4-byte characters
Contents ==
    { <<>>,
      <<Run("a", PreviewLen + 1)>>,
      <<Run("a", size_threshold)>>,
      <<Run("a", size_threshold + 1)>>,
      <<Run("a", size_threshold - 1), Run("e2", 1)>>,
      <<Run("e4", size_threshold \div 4)>> }

\* ids a caller may ask for: every generated id and one never generated
AskedIds == {MsgId(k) : k \in 1..(MaxMessages + 1)}

ProductionStorage_store_message ==
    /\ next_msg < MaxMessages
    /\ \E c \in ConversationIds, r \in DirectRoles, s \in Contents :
          ProductionStore(c, r, s, NoMetadata)
    /\ UNCHANGED <<service_vars, extract_vars, session_vars, stream_vars,
                   chat_vars, ui_vars,
                   api_vars, firestore_vars, upload_vars>>

LocalStorage_store_message ==
    /\ next_msg < MaxMessages
    /\ \E c \in ConversationIds, r \in DirectRoles, s \in Contents :
          LocalStore(c, r, s, NoMetadata)
    /\ UNCHANGED <<service_vars, extract_vars, session_vars, stream_vars,
                   chat_vars, ui_vars,
                   api_vars, firestore_vars, upload_vars>>

ProductionStorage_get_message_content ==
    /\ \E m \in AskedIds :
          st_result' = [op |-> "get", backend |-> "cloud", id |-> m,
                        result |-> ProductionGetContent(m)]
    /\ UNCHANGED <<fs_messages, fs_conversations, gcs_blobs, local_messages,
                   local_conversations, next_msg, clock, stored,
                   service_vars, extract_vars, session_vars, stream_vars,
                   chat_vars, ui_vars,
                   api_vars, firestore_vars, upload_vars>>

LocalStorage_get_message_content ==
    /\ \E m \in AskedIds :
          st_result' = [op |-> "get", backend |-> "local", id |-> m,
                        result |-> LocalGetContent(m)]
    /\ UNCHANGED <<fs_messages, fs_conversations, gcs_blobs, local_messages,
                   local_conversations, next_msg, clock, stored,
                   service_vars, extract_vars, session_vars, stream_vars,
                   chat_vars, ui_vars,
                   api_vars, firestore_vars, upload_vars>>

NextStorage ==
    \/ ProductionStorage_store_message
    \/ LocalStorage_store_message
    \/ ProductionStorage_get_message_content
    \/ LocalStorage_get_message_content

-----------------------------------------------------------------------------
(* SimpleMessageService.__init__, lines 263-284 *)

SimpleMessageService_init ==
    /\ svc.state = "unconstructed"
    /\ svc' = IF UseCloud(svc_env)
              THEN IF svc_env.production_ctor = "ok"
                   THEN CloudService
                   ELSE CtorFallback(svc_env)
              ELSE LocalService
    /\ UNCHANGED <<svc_env, storage_vars, extract_vars, session_vars,
                   stream_vars, chat_vars, ui_vars,
                   api_vars, firestore_vars, upload_vars>>

\* the constructed service in use
SimpleMessageService_add_message ==
    /\ svc.state = "constructed"
    /\ next_msg < MaxMessages
    /\ \E r \in Roles, s \in {<<>>, TxtA} :
          add_message_to_conversation(<<"c1">>, r, s)
    /\ UNCHANGED <<service_vars, extract_vars, session_vars, stream_vars,
                   chat_vars, ui_vars,
                   api_vars, firestore_vars, upload_vars>>

NextService ==
    \/ SimpleMessageService_init
    \/ SimpleMessageService_add_message

-----------------------------------------------------------------------------
(* extract_response_text called on a list of events *)

ADKService_extract_response_text ==
    /\ ex_result.kind = "pending"
    /\ ex_result' = extract_response_text(ex_events)
    /\ UNCHANGED <<ex_events, storage_vars, service_vars, session_vars,
                   stream_vars, chat_vars, ui_vars,
                   api_vars, firestore_vars, upload_vars>>

NextExtract == ADKService_extract_response_text

-----------------------------------------------------------------------------
(* get_or_create_session called by itself *)

get_or_create_session ==
    /\ sess_call.pc \in {"idle", "returned", "raised"}
    /\ sess_call.n < MaxCalls
    /\ \E user_id \in Users, session_id \in SessionIdArgs :
          SessionBegin(user_id, session_id)
    /\ UNCHANGED <<storage_vars, service_vars, extract_vars, stream_vars,
                   chat_vars, ui_vars,
                   api_vars, firestore_vars, upload_vars>>

get_or_create_session_get ==
    /\ SessionGet
    /\ UNCHANGED <<storage_vars, service_vars, extract_vars, stream_vars,
                   chat_vars, ui_vars,
                   api_vars, firestore_vars, upload_vars>>

get_or_create_session_create ==
    /\ SessionCreate
    /\ UNCHANGED <<storage_vars, service_vars, extract_vars, stream_vars,
                   chat_vars, ui_vars,
                   api_vars, firestore_vars, upload_vars>>

NextSession ==
    \/ get_or_create_session
    \/ get_or_create_session_get
    \/ get_or_create_session_create

-----------------------------------------------------------------------------
(* run_agent_streaming iterated to its end *)

NextStream ==
    \/ run_agent_streaming
    \/ run_agent_streaming_post
    \/ run_agent_streaming_line
    \/ run_agent_streaming_fallback

-----------------------------------------------------------------------------
(* the backend serving requests *)

rfp_chat_get_session ==
    /\ chat.pc = "session"
    /\ SessionGet
    /\ UNCHANGED <<storage_vars, service_vars, extract_vars, stream_vars,
                   chat_vars, ui_vars,
                   api_vars, firestore_vars, upload_vars>>

rfp_chat_create_session ==
    /\ chat.pc = "session"
    /\ SessionCreate
    /\ UNCHANGED <<storage_vars, service_vars, extract_vars, stream_vars,
                   chat_vars, ui_vars,
                   api_vars, firestore_vars, upload_vars>>

NextChat ==
    \/ rfp_chat_endpoint
    \/ rfp_chat_get_session
    \/ rfp_chat_create_session
    \/ rfp_chat_after_session
    \/ rfp_chat_new_conversation
    \/ rfp_chat_user_message
    \/ rfp_chat_process_attachments
    \/ rfp_chat_run_agent
    \/ put_conversation_title

-----------------------------------------------------------------------------
(* the Streamlit app *)

NextUi ==
    \/ chat_input
    \/ chat_send
    \/ chat_process

-----------------------------------------------------------------------------
(* Specifications: one per component; the other components stay idle *)

InitStorageAlone ==
    /\ IdleStorage /\ IdleService /\ IdleExtract /\ IdleSession
    /\ IdleStream /\ IdleChat /\ IdleUi
    /\ IdleApi /\ IdleFirestore /\ IdleUpload

InitServiceAlone ==
    /\ InitService /\ IdleStorage /\ IdleExtract /\ IdleSession
    /\ IdleStream /\ IdleChat /\ IdleUi
    /\ IdleApi /\ IdleFirestore /\ IdleUpload

InitExtractAlone ==
    /\ InitExtract /\ IdleStorage /\ IdleService /\ IdleSession
    /\ IdleStream /\ IdleChat /\ IdleUi
    /\ IdleApi /\ IdleFirestore /\ IdleUpload

InitSessionAlone ==
    /\ InitSession /\ IdleStorage /\ IdleService /\ IdleExtract
    /\ IdleStream /\ IdleChat /\ IdleUi
    /\ IdleApi /\ IdleFirestore /\ IdleUpload

InitStreamAlone ==
    /\ IdleStream /\ IdleStorage /\ IdleService /\ IdleExtract
    /\ IdleSession /\ IdleChat /\ IdleUi
    /\ IdleApi /\ IdleFirestore /\ IdleUpload

InitBackend ==
    /\ InitChat /\ IdleStorage /\ IdleExtract /\ IdleStream /\ IdleUi
    /\ IdleApi /\ IdleFirestore /\ IdleUpload

InitUiAlone ==
    /\ InitUi /\ IdleStorage /\ IdleService /\ IdleExtract /\ IdleSession
    /\ IdleStream /\ IdleChat
    /\ IdleApi /\ IdleFirestore /\ IdleUpload

SpecStorage == InitStorageAlone /\ [][NextStorage]_vars

SpecService == InitServiceAlone /\ [][NextService]_vars

SpecExtract == InitExtractAlone /\ [][NextExtract]_vars

SpecSession == InitSessionAlone /\ [][NextSession]_vars

SpecStream == InitStreamAlone /\ [][NextStream]_vars

SpecChat == InitBackend /\ [][NextChat]_vars

SpecUi == InitUiAlone /\ [][NextUi]_vars

-----------------------------------------------------------------------------
(* production_storage.py: conversations and messages read back, and the    *)
(* two backends of SimpleMessageService given the same calls               *)

MaxServiceCalls == 3

\* list.sort(key=...) and Firestore order_by: the documents by one field
RECURSIVE OrderBy(_, _, _)
OrderBy(docs, field, descending) ==
    IF docs = {} THEN <<>>
    ELSE LET first == CHOOSE d \in docs : \A e \in docs :
                         IF descending THEN e[field] <= d[field]
                                       ELSE d[field] <= e[field]
         IN <<first>> \o OrderBy(docs \ {first}, field, descending)

\* list[offset:offset+limit] and Firestore .limit(limit).offset(offset)
PySlice(list, offset, limit) ==
    SubSeq(list, offset + 1,
           IF offset + limit < Len(list) THEN offset + limit ELSE Len(list))

\* get_user_conversations: LocalStorage sorts by created_at (lines 95-120),
\* the cloud branch orders the query by updated_at (lines 349-366)
get_user_conversations(storage_type, user_id, limit, offset) ==
    LET convs == IF storage_type = "local" THEN local_conversations
                 ELSE fs_conversations
        own == {convs[c] : c \in {k \in DOMAIN convs :
                                    convs[k].user_id = user_id}}
        ordered == IF storage_type = "local"
                   THEN OrderBy(own, "created_at", TRUE)
                   ELSE OrderBy(own, "updated_at", TRUE)
        page == PySlice(ordered, offset, limit)
    IN [i \in 1..Len(page) |->
          [id |-> page[i].id, title |-> page[i].title,
           created_at |-> page[i].created_at,
           message_count |-> page[i].message_count]]

\* get_conversation_messages: LocalStorage (lines 49-73) or the cloud
\* branch (lines 296-319), oldest first; a download that raises ends the call
get_conversation_messages(storage_type, conversation_id) ==
    LET msgs == IF storage_type = "local" THEN local_messages ELSE fs_messages
        own == {msgs[m] : m \in {k \in DOMAIN msgs :
                                   msgs[k].conversation_id = conversation_id}}
        ordered == OrderBy(own, "timestamp", FALSE)
        content(data) ==
            IF storage_type = "local" THEN [kind |-> "str", value |-> data.content]
            ELSE IF data.storage_type = "firestore"
                 THEN [kind |-> "str", value |-> data.content]
                 ELSE ProductionGetContent(data.id)
        attachments(data) ==
            IF "attachments" \in DOMAIN data.metadata
            THEN data.metadata.attachments ELSE <<>>
        raising == {i \in 1..Len(ordered) : content(ordered[i]).kind = "raise"}
    IN IF raising # {}
       THEN [kind |-> "raise",
             exc |-> content(ordered[CHOOSE i \in raising :
                                        \A j \in raising : i <= j]).exc]
       ELSE [kind |-> "list",
             value |-> [i \in 1..Len(ordered) |->
                          [role |-> ordered[i].role,
                           content |-> content(ordered[i]),
                           timestamp |-> ordered[i].timestamp,
                           attachments |-> attachments(ordered[i])]]]

\* one service of each backend, both given every call
DropInIds == { <<"c1">>, <<"c3">> }
DropInContents == { <<Run("a", 1)>>, <<Run("a", size_threshold + 1)>> }
Limits == {1, 2}
Offsets == {0, 1}

\* create_conversation, lines 75-93 and 321-342
both_create_conversation ==
    /\ clock < MaxServiceCalls
    /\ \E c \in DropInIds, u \in Users :
          LET now == Now(clock)
              doc == ConversationDoc(c, u, TxtA, now)
              returned == [id |-> c, title |-> TxtA, created_at |-> now]
          IN /\ clock' = now
             /\ local_conversations' = (c :> doc) @@ local_conversations
             /\ fs_conversations' = (c :> doc) @@ fs_conversations
             /\ st_result' = [op |-> "create_conversation",
                              local |-> returned, cloud |-> returned]
    /\ UNCHANGED <<fs_messages, gcs_blobs, local_messages, next_msg, stored,
                   service_vars, extract_vars, session_vars, stream_vars,
                   chat_vars, ui_vars,
                   api_vars, firestore_vars, upload_vars>>

\* add_message_to_conversation, lines 286-289, on LocalStorage.store_message
\* and on ProductionStorage.store_message
both_add_message ==
    /\ clock < MaxServiceCalls
    /\ \E c \in DropInIds, s \in DropInContents :
          LET now == Now(clock)
              message_id == MsgId(next_msg + 1)
              metadata == [attachments |-> <<>>]
          IN /\ clock' = now
             /\ next_msg' = next_msg + 1
             /\ local_messages' =
                  (message_id :> LocalMessageDoc(message_id, c, "user", s,
                                                 metadata, now))
                  @@ local_messages
             /\ fs_messages' =
                  (message_id :> ProductionMessageDoc(message_id, c, "user", s,
                                                      metadata, now))
                  @@ fs_messages
             /\ gcs_blobs' =
                  IF StoreInline(ContentSize(s)) THEN gcs_blobs
                  ELSE (StoragePath(c, message_id) :> Utf8Encode(s))
                       @@ gcs_blobs
             /\ st_result' = [op |-> "add_message_to_conversation",
                              local |-> message_id, cloud |-> message_id]
    /\ UNCHANGED <<fs_conversations, local_conversations, stored,
                   service_vars, extract_vars, session_vars, stream_vars,
                   chat_vars, ui_vars,
                   api_vars, firestore_vars, upload_vars>>

\* update_conversation_title, lines 122-141 and 368-384
both_update_conversation_title ==
    /\ clock < MaxServiceCalls
    /\ \E c \in DropInIds :
          LET now == Now(clock)
              set(convs) == IF c \in DOMAIN convs
                            THEN [convs EXCEPT ![c].title = TxtB,
                                               ![c].updated_at = now]
                            ELSE convs
          IN /\ clock' = now
             /\ local_conversations' = set(local_conversations)
             /\ fs_conversations' = set(fs_conversations)
             /\ st_result' = [op |-> "update_conversation_title",
                              local |-> c \in DOMAIN local_conversations,
                              cloud |-> c \in DOMAIN fs_conversations]
    /\ UNCHANGED <<fs_messages, gcs_blobs, local_messages, next_msg, stored,
                   service_vars, extract_vars, session_vars, stream_vars,
                   chat_vars, ui_vars,
                   api_vars, firestore_vars, upload_vars>>

both_get_user_conversations ==
    /\ \E u \in Users, limit \in Limits, offset \in Offsets :
          st_result' = [op |-> "get_user_conversations",
                        local |-> get_user_conversations("local", u, limit, offset),
                        cloud |-> get_user_conversations("cloud", u, limit, offset)]
    /\ UNCHANGED <<fs_messages, fs_conversations, gcs_blobs, local_messages,
                   local_conversations, next_msg, clock, stored,
                   service_vars, extract_vars, session_vars, stream_vars,
                   chat_vars, ui_vars,
                   api_vars, firestore_vars, upload_vars>>

both_get_conversation_messages ==
    /\ \E c \in DropInIds :
          st_result' = [op |-> "get_conversation_messages",
                        local |-> get_conversation_messages("local", c),
                        cloud |-> get_conversation_messages("cloud", c)]
    /\ UNCHANGED <<fs_messages, fs_conversations, gcs_blobs, local_messages,
                   local_conversations, next_msg, clock, stored,
                   service_vars, extract_vars, session_vars, stream_vars,
                   chat_vars, ui_vars,
                   api_vars, firestore_vars, upload_vars>>

NextDropIn ==
    \/ both_create_conversation
    \/ both_add_message
    \/ both_update_conversation_title
    \/ both_get_user_conversations
    \/ both_get_conversation_messages

SpecDropIn == InitStorageAlone /\ [][NextDropIn]_vars

-----------------------------------------------------------------------------
(* main.py: the conversation endpoints, lines 96-199 *)

\* models.py: the fields a response_model requires of each returned item
ConversationResponseRequired ==
    {"id", "user_id", "title", "created_at", "updated_at", "message_count",
     "model_settings"}

MessageResponseRequired == {"id", "conversation_id", "role", "content", "timestamp"}

\* FastAPI validates what a handler returns against its response_model; a
\* value that fails is answered with 500
ResponseStatus(required, items) ==
    IF \A i \in 1..Len(items) : required \subseteq DOMAIN items[i]
    THEN 200 ELSE 500

\* f"conv_{uuid.uuid4().hex[:12]}"
ConvId(k) == <<"conv_", Uuid(k)>>

\* path parameter conversation_id: an id a POST /conversations returned
PathIds == {ConvId(1), ConvId(2)}

\* query parameter before_timestamp: None or a moment of the clock
BeforeTimestamps == {"None"} \cup {ToString(t) : t \in 1..2}

\* POST /conversations, lines 96-112
post_conversations ==
    /\ clock < MaxServiceCalls
    /\ LET conversation_id == ConvId(next_uuid + 1)
           conversation == [id |-> conversation_id, title |-> TxtA,
                            created_at |-> Now(clock)]
       IN /\ create_conversation(conversation_id, CurrentUser, TxtA)
          /\ next_uuid' = next_uuid + 1
          /\ api' = [endpoint |-> "create_conversation",
                     returned |-> conversation,
                     status_code |-> ResponseStatus(ConversationResponseRequired,
                                                    <<conversation>>),
                     deleted |-> api.deleted]
    /\ UNCHANGED <<fs_messages, gcs_blobs, local_messages, next_msg, stored,
                   st_result, adk_sessions, sess_call, service_vars,
                   extract_vars, stream_vars, chat_vars, ui_vars,
                   firestore_vars, upload_vars>>

\* POST /conversations/{conversation_id}/messages, lines 143-162
post_message ==
    /\ clock < MaxServiceCalls
    /\ next_msg < MaxMessages
    /\ \E conversation_id \in PathIds :
          LET message == [id |-> MsgId(next_msg + 1),
                          conversation_id |-> conversation_id,
                          role |-> "user", content |-> TxtA,
                          timestamp |-> Now(clock)]
          IN /\ add_message_to_conversation(conversation_id, "user", TxtA)
             /\ api' = [endpoint |-> "add_message", returned |-> message,
                        status_code |-> ResponseStatus(MessageResponseRequired,
                                                       <<message>>),
                        deleted |-> api.deleted \ {conversation_id}]
    /\ UNCHANGED <<service_vars, extract_vars, session_vars, stream_vars,
                   chat_vars, ui_vars, firestore_vars, upload_vars>>

\* DELETE /conversations/{conversation_id}, lines 181-188
delete_conversation ==
    /\ \E conversation_id \in PathIds :
          api' = [endpoint |-> "delete_conversation",
                  conversation_id |-> conversation_id,
                  returned |-> [message |-> "Conversation deleted successfully"],
                  status_code |-> 200,
                  deleted |-> api.deleted \cup {conversation_id}]
    /\ UNCHANGED <<storage_vars, service_vars, extract_vars, session_vars,
                   stream_vars, chat_vars, ui_vars, firestore_vars,
                   upload_vars>>

\* GET /conversations, lines 114-126
get_conversations ==
    /\ \E limit \in Limits, offset \in Offsets :
          LET conversations ==
                 get_user_conversations(svc.storage_type, CurrentUser,
                                        limit, offset)
          IN api' = [endpoint |-> "get_conversations",
                     returned |-> conversations,
                     status_code |-> ResponseStatus(ConversationResponseRequired,
                                                    conversations),
                     deleted |-> api.deleted]
    /\ UNCHANGED <<storage_vars, service_vars, extract_vars, session_vars,
                   stream_vars, chat_vars, ui_vars, firestore_vars,
                   upload_vars>>

\* GET /conversations/{conversation_id}/messages, lines 190-199; an
\* exception of the service is answered with 500
get_messages ==
    /\ \E conversation_id \in PathIds, limit \in Limits,
          before_timestamp \in BeforeTimestamps :
          LET messages == get_conversation_messages(svc.storage_type,
                                                    conversation_id)
              returned == IF messages.kind = "list"
                          THEN PySlice(messages.value, 0, limit) ELSE <<>>
          IN api' = [endpoint |-> "get_messages",
                     conversation_id |-> conversation_id,
                     limit |-> limit, before_timestamp |-> before_timestamp,
                     returned |-> returned,
                     status_code |-> IF messages.kind = "list"
                                     THEN ResponseStatus(MessageResponseRequired,
                                                         returned)
                                     ELSE 500,
                     deleted |-> api.deleted]
    /\ UNCHANGED <<storage_vars, service_vars, extract_vars, session_vars,
                   stream_vars, chat_vars, ui_vars, firestore_vars,
                   upload_vars>>

NextRest ==
    \/ post_conversations
    \/ post_message
    \/ delete_conversation
    \/ get_conversations
    \/ get_messages

\* message_service is constructed at import (lines 58-61) on either backend
InitRest ==
    /\ InitChat /\ IdleStorage /\ IdleExtract /\ IdleStream /\ IdleUi
    /\ IdleApi /\ IdleFirestore /\ IdleUpload

SpecRest == InitRest /\ [][NextRest]_vars

-----------------------------------------------------------------------------
(* services/firestore_service.py: FirestoreService.  fss.db is what        *)
(* __init__ left in self.db: None (mock mode) or a Firestore client.       *)
(* fss.conversations and fss.messages are the two collections, or the two  *)
(* mock dicts when db is None.  A caller is a coroutine of any server      *)
(* process; callers of one Firestore database interleave between two       *)
(* Firestore operations, and the mock dicts belong to one process, whose   *)
(* methods run without an await.                                           *)

MaxFirestoreCalls == 3
batch_size == 500
TitleLen == 50
DefaultLimit == 50
PreviewLimit == 5

Callers == {1, 2}

\* conversation_data of create_conversation, lines 65-73
FsConversation(conversation_id, user_id, title, now) ==
    [id |-> conversation_id, user_id |-> user_id, title |-> title,
     created_at |-> now, updated_at |-> now, message_count |-> 0,
     model_settings |-> "ModelConfig"]

\* message_data of add_message, lines 252-259 and 286-293
FsMessage(message_id, conversation_id, role, content, now) ==
    [id |-> message_id, conversation_id |-> conversation_id, role |-> role,
     content |-> content, timestamp |-> now, metadata |-> "None"]

Returned(value) == [kind |-> "return", value |-> value]

FsIdle == [op |-> "none", pc |-> "idle"]

\* a caller may start a call
Free(k) ==
    /\ fss_calls[k].pc \in {"idle", "done"}
    /\ fss.calls < MaxFirestoreCalls

\* the stored messages of one conversation
MessagesOf(conversation_id) ==
    {fss.messages[m] : m \in {k \in DOMAIN fss.messages :
                        fss.messages[k].conversation_id = conversation_id}}

\* list(reversed(messages))
Reversed(list) == [i \in 1..Len(list) |-> list[Len(list) + 1 - i]]

\* _get_conversation_messages, lines 350-388: the newest `limit` messages
\* earlier than before_timestamp (0: None), returned oldest first
FirestoreService_get_conversation_messages(conversation_id, limit, before_timestamp) ==
    LET own == MessagesOf(conversation_id)
        earlier == IF before_timestamp = 0 THEN own
                   ELSE {d \in own : d.timestamp < before_timestamp}
    IN Reversed(PySlice(OrderBy(earlier, "timestamp", TRUE), 0, limit))

\* the ownership test: lines 242-247 in mock mode, line 280 with Firestore
AccessDeniedMissingOnly(conversation_id, user_id) ==
    conversation_id \notin DOMAIN fss.conversations

AccessDenied(conversation_id, user_id) ==
    \/ conversation_id \notin DOMAIN fss.conversations
    \/ fss.conversations[conversation_id].user_id # user_id

\* firestore.Increment(n), applied by the server to the stored value at
\* commit; `snapshot` is the value the caller read before
IncrementOfSnapshot(current, snapshot, n) == snapshot + n
Increment(current, snapshot, n) == current + n

\* lines 310-316: the title made from the first user message
NewTitle(content) ==
    IF PyLen(content) > TitleLen
    THEN PyConcat(PySlicePrefix(content, TitleLen), <<Run(".", 3)>>)
    ELSE content

GenericTitles == {Txt("New Conversation"), Txt("Untitled")}

\* message_data of the message being added
AddedMessage(call) ==
    FsMessage(Uuid(fss.uuids + 1), call.conversation_id, call.role,
              call.content, fss.now + 1)

\* the writes of add_message: lines 261-265 in mock mode, the batch of
\* lines 296-318 with Firestore; conv_data is the document read at line 278
AddMessageWrites(call, conv_data) ==
    LET now == fss.now + 1
        retitle == /\ fss.db # "None"
                   /\ call.role = "user"
                   /\ conv_data.message_count = 0
                   /\ conv_data.title \in GenericTitles
    IN [fss EXCEPT
          !.uuids = @ + 1, !.now = now,
          !.messages = (Uuid(fss.uuids + 1) :> AddedMessage(call)) @@ @,
          !.conversations[call.conversation_id] =
              [@ EXCEPT !.updated_at = now,
                        !.message_count =
                            Increment(@, conv_data.message_count, 1),
                        !.title = IF retitle THEN NewTitle(call.content)
                                  ELSE @]]

\* inputs of the calls
FsTitles == {Txt("New Conversation")}
FsInputs ==
    { [role |-> "user", content |-> TxtA],
      [role |-> "user", content |-> <<Run("a", TitleLen + 1)>>],
      [role |-> "assistant", content |-> TxtA] }
AskedConversationIds == DOMAIN fss.conversations \cup {Uuid(0)}
Befores == {0, 2}

\* create_conversation, lines 55-94
FirestoreService_create_conversation ==
    /\ \E k \in Callers, user_id \in Users, title \in FsTitles :
       /\ Free(k)
       /\ LET conversation_id == Uuid(fss.uuids + 1)
              now == fss.now + 1
              data == FsConversation(conversation_id, user_id, title, now)
          IN /\ fss' = [fss EXCEPT
                  !.uuids = @ + 1, !.now = now, !.calls = @ + 1,
                  !.conversations = (conversation_id :> data) @@ @]
             /\ fss_calls' = [fss_calls EXCEPT ![k] =
                  [op |-> "create_conversation", pc |-> "done", k |-> k,
                   user_id |-> user_id, result |-> Returned(data)]]
    /\ UNCHANGED <<storage_vars, service_vars, extract_vars, session_vars,
                   stream_vars, chat_vars, ui_vars, api_vars, upload_vars>>

\* add_message, lines 226-281: the ownership test; in mock mode the rest of
\* the method follows at once, with Firestore the document has been read
\* and the batch is still to be committed
FirestoreService_add_message ==
    /\ \E k \in Callers, conversation_id \in AskedConversationIds,
          user_id \in Users, input \in FsInputs :
       /\ Free(k)
       /\ LET call == [op |-> "add_message", pc |-> "commit", k |-> k,
                       conversation_id |-> conversation_id,
                       user_id |-> user_id, role |-> input.role,
                       content |-> input.content,
                       snapshot |-> IF AccessDenied(conversation_id, user_id)
                                    THEN <<>>
                                    ELSE fss.conversations[conversation_id],
                       result |-> Returned(PyNone)]
          IN IF AccessDenied(conversation_id, user_id)
             THEN /\ fss' = [fss EXCEPT !.calls = @ + 1]
                  /\ fss_calls' = [fss_calls EXCEPT ![k] =
                       [call EXCEPT !.pc = "done",
                                    !.result = Raised("ValueError")]]
             ELSE IF fss.db = "None"
             THEN /\ fss' = [AddMessageWrites(call,
                                     fss.conversations[conversation_id])
                             EXCEPT !.calls = @ + 1]
                  /\ fss_calls' = [fss_calls EXCEPT ![k] =
                       [call EXCEPT !.pc = "done",
                                    !.result = Returned(AddedMessage(call))]]
             ELSE /\ fss' = [fss EXCEPT !.calls = @ + 1]
                  /\ fss_calls' = [fss_calls EXCEPT ![k] = call]
    /\ UNCHANGED <<storage_vars, service_vars, extract_vars, session_vars,
                   stream_vars, chat_vars, ui_vars, api_vars, upload_vars>>

\* add_message, lines 283-327: batch.commit().  The batch updates the
\* conversation document, so it fails as a whole if that document is gone
FirestoreService_add_message_commit ==
    /\ \E k \in Callers :
       /\ fss_calls[k].op = "add_message"
       /\ fss_calls[k].pc = "commit"
       /\ LET call == fss_calls[k]
              conv_data == call.snapshot
          IN IF call.conversation_id \notin DOMAIN fss.conversations
             THEN /\ fss_calls' = [fss_calls EXCEPT ![k] =
                       [call EXCEPT !.pc = "done", !.result = Raised("NotFound")]]
                  /\ UNCHANGED fss
             ELSE /\ fss' = AddMessageWrites(call, conv_data)
                  /\ fss_calls' = [fss_calls EXCEPT ![k] =
                       [call EXCEPT !.pc = "done",
                                    !.result = Returned(AddedMessage(call))]]
    /\ UNCHANGED <<storage_vars, service_vars, extract_vars, session_vars,
                   stream_vars, chat_vars, ui_vars, api_vars, upload_vars>>

\* a ConversationResponse: the document and the messages given with it
ConversationResponse(data, messages) ==
    [id |-> data.id, user_id |-> data.user_id, title |-> data.title,
     message_count |-> data.message_count, messages |-> messages]

\* get_user_conversations, lines 96-153.  Mock mode walks the dict in
\* insertion order and applies neither limit nor offset; the Firestore
\* query orders by updated_at, newest first, and adds a preview
get_user_conversations_of(user_id, limit, offset) ==
    LET own == {fss.conversations[c] : c \in {k \in DOMAIN fss.conversations :
                   fss.conversations[k].user_id = user_id}}
        inserted == OrderBy(own, "created_at", FALSE)
        page == PySlice(OrderBy(own, "updated_at", TRUE), offset, limit)
    IN IF fss.db = "None"
       THEN [i \in 1..Len(inserted) |-> ConversationResponse(inserted[i], <<>>)]
       ELSE [i \in 1..Len(page) |->
               ConversationResponse(page[i],
                  FirestoreService_get_conversation_messages(page[i].id,
                                                             PreviewLimit, 0))]

\* get_conversation, lines 155-224
get_conversation_of(conversation_id, user_id) ==
    IF AccessDenied(conversation_id, user_id) THEN PyNone
    ELSE ConversationResponse(fss.conversations[conversation_id],
            IF fss.db = "None"
            THEN OrderBy(MessagesOf(conversation_id), "timestamp", FALSE)
            ELSE FirestoreService_get_conversation_messages(conversation_id,
                                                            DefaultLimit, 0))

\* get_messages, lines 329-348; without a client self.db.collection raises
get_messages_of(conversation_id, user_id, limit, before_timestamp) ==
    IF fss.db = "None" THEN Raised("AttributeError")
    ELSE IF AccessDenied(conversation_id, user_id) THEN Returned(<<>>)
    ELSE Returned(FirestoreService_get_conversation_messages(conversation_id,
                                                  limit, before_timestamp))

\* a call that reads and returns at once
Read(k, call) ==
    /\ Free(k)
    /\ fss' = [fss EXCEPT !.calls = @ + 1]
    /\ fss_calls' = [fss_calls EXCEPT ![k] = call]

FirestoreService_get_user_conversations ==
    /\ \E k \in Callers, user_id \in Users, limit \in {1} :
          Read(k, [op |-> "get_user_conversations", pc |-> "done", k |-> k,
                   user_id |-> user_id,
                   result |-> Returned(get_user_conversations_of(user_id, limit, 0))])
    /\ UNCHANGED <<storage_vars, service_vars, extract_vars, session_vars,
                   stream_vars, chat_vars, ui_vars, api_vars, upload_vars>>

FirestoreService_get_conversation ==
    /\ \E k \in Callers, conversation_id \in AskedConversationIds,
          user_id \in Users :
          Read(k, [op |-> "get_conversation", pc |-> "done", k |-> k,
                   conversation_id |-> conversation_id, user_id |-> user_id,
                   result |-> Returned(get_conversation_of(conversation_id, user_id))])
    /\ UNCHANGED <<storage_vars, service_vars, extract_vars, session_vars,
                   stream_vars, chat_vars, ui_vars, api_vars, upload_vars>>

FirestoreService_get_messages ==
    /\ \E k \in Callers, conversation_id \in AskedConversationIds,
          user_id \in Users, limit \in {1}, before_timestamp \in Befores :
          Read(k, [op |-> "get_messages", pc |-> "done", k |-> k,
                   conversation_id |-> conversation_id, user_id |-> user_id,
                   limit |-> limit, before_timestamp |-> before_timestamp,
                   result |-> get_messages_of(conversation_id, user_id, limit,
                                              before_timestamp)])
    /\ UNCHANGED <<storage_vars, service_vars, extract_vars, session_vars,
                   stream_vars, chat_vars, ui_vars, api_vars, upload_vars>>

\* update_conversation_title, lines 390-408
FirestoreService_update_conversation_title ==
    /\ \E k \in Callers, conversation_id \in AskedConversationIds,
          user_id \in Users :
       /\ Free(k)
       /\ LET call == [op |-> "update_conversation_title", pc |-> "done",
                       k |-> k, conversation_id |-> conversation_id,
                       user_id |-> user_id, result |-> Returned(FALSE)]
              written == fss.db # "None" /\ ~AccessDenied(conversation_id, user_id)
          IN /\ fss' = [fss EXCEPT
                  !.calls = @ + 1,
                  !.now = IF written THEN @ + 1 ELSE @,
                  !.conversations =
                      IF written
                      THEN [@ EXCEPT ![conversation_id].title = TxtB,
                                     ![conversation_id].updated_at = fss.now + 1]
                      ELSE @]
             /\ fss_calls' = [fss_calls EXCEPT ![k] =
                  [call EXCEPT !.result =
                      IF fss.db = "None" THEN Raised("AttributeError")
                      ELSE Returned(written)]]
    /\ UNCHANGED <<storage_vars, service_vars, extract_vars, session_vars,
                   stream_vars, chat_vars, ui_vars, api_vars, upload_vars>>

NextFirestore ==
    \/ FirestoreService_create_conversation
    \/ FirestoreService_add_message
    \/ FirestoreService_add_message_commit
    \/ FirestoreService_get_user_conversations
    \/ FirestoreService_get_conversation
    \/ FirestoreService_get_messages
    \/ FirestoreService_update_conversation_title

\* __init__, lines 11-53: self.db is a client or None, the stores are empty
InitFirestore ==
    /\ fss \in [db : {"None", "firestore"}, conversations : {<<>>},
                 messages : {<<>>}, uuids : {0}, now : {0}, calls : {0}]
    /\ fss_calls = [k \in Callers |-> FsIdle]
    /\ IdleStorage /\ IdleService /\ IdleExtract /\ IdleSession
    /\ IdleStream /\ IdleChat /\ IdleUi /\ IdleApi /\ IdleUpload

SpecFirestore == InitFirestore /\ [][NextFirestore]_vars

-----------------------------------------------------------------------------
(* FirestoreService.delete_conversation, lines 410-454, called by one       *)
(* caller on conversations of every size around the batch size             *)

SeedCounts == {0, 1, batch_size - 1, batch_size, batch_size + 1}

\* the k-th stored message: number 3 belongs to the second conversation
SeedMessage(k) ==
    FsMessage(Uuid(k), IF k = 3 THEN Uuid(2) ELSE Uuid(1), "user", TxtA, k)

\* a service that holds a conversation of n messages of the first user and
\* a conversation of one message of the second user
Seeded(db, n) ==
    [db |-> db,
     conversations |->
        (Uuid(1) :> [FsConversation(Uuid(1), "dev-user-123", TxtA, 1)
                        EXCEPT !.message_count = n])
        @@ (Uuid(2) :> [FsConversation(Uuid(2), "user-2", TxtA, 2)
                           EXCEPT !.message_count = 1]),
     messages |-> [id \in {Uuid(k) : k \in 3..(n + 3)} |->
                     SeedMessage(CHOOSE k \in 3..(n + 3) : Uuid(k) = id)],
     uuids |-> n + 3, now |-> n + 3, calls |-> 0]

\* messages_query.limit(batch_size).stream(): at most batch_size of them
FirstBatch(docs) ==
    {d \in docs : Cardinality({e \in docs : e.timestamp < d.timestamp})
                     < batch_size}

\* lines 416-421: the ownership test
FirestoreService_delete_conversation ==
    /\ \E conversation_id \in AskedConversationIds, user_id \in Users :
       /\ Free(1)
       /\ LET call == [op |-> "delete_conversation", pc |-> "batch", k |-> 1,
                       conversation_id |-> conversation_id,
                       user_id |-> user_id, batches |-> 0,
                       result |-> Returned(PyNone)]
          IN /\ fss' = [fss EXCEPT !.calls = @ + 1]
             /\ fss_calls' = [fss_calls EXCEPT ![1] =
                  IF fss.db = "None"
                  THEN [call EXCEPT !.pc = "done",
                                    !.result = Raised("AttributeError")]
                  ELSE IF AccessDenied(conversation_id, user_id)
                  THEN [call EXCEPT !.pc = "done", !.result = Returned(FALSE)]
                  ELSE call]
    /\ UNCHANGED <<storage_vars, service_vars, extract_vars, session_vars,
                   stream_vars, chat_vars, ui_vars, api_vars, upload_vars>>

\* lines 433-449: one turn of the loop
FirestoreService_delete_conversation_batch ==
    /\ fss_calls[1].op = "delete_conversation"
    /\ fss_calls[1].pc = "batch"
    /\ LET docs == FirstBatch(MessagesOf(fss_calls[1].conversation_id))
           count == Cardinality(docs)
       IN /\ fss' = [fss EXCEPT !.messages =
                       [id \in DOMAIN @ \ {d.id : d \in docs} |-> @[id]]]
          /\ fss_calls' = [fss_calls EXCEPT
                ![1].batches = @ + 1,
                ![1].pc = IF count = 0 \/ count < batch_size
                          THEN "delete" ELSE "batch"]
    /\ UNCHANGED <<storage_vars, service_vars, extract_vars, session_vars,
                   stream_vars, chat_vars, ui_vars, api_vars, upload_vars>>

\* lines 451-454: conv_ref.delete(); return True
FirestoreService_delete_conversation_delete ==
    /\ fss_calls[1].op = "delete_conversation"
    /\ fss_calls[1].pc = "delete"
    /\ fss' = [fss EXCEPT !.conversations =
                 [id \in DOMAIN @ \ {fss_calls[1].conversation_id} |-> @[id]]]
    /\ fss_calls' = [fss_calls EXCEPT ![1].pc = "done",
                                      ![1].result = Returned(TRUE)]
    /\ UNCHANGED <<storage_vars, service_vars, extract_vars, session_vars,
                   stream_vars, chat_vars, ui_vars, api_vars, upload_vars>>

NextFirestoreDelete ==
    \/ FirestoreService_delete_conversation
    \/ FirestoreService_delete_conversation_batch
    \/ FirestoreService_delete_conversation_delete

InitFirestoreDelete ==
    /\ fss \in {Seeded(db, n) : db \in {"None", "firestore"}, n \in SeedCounts}
    /\ fss_calls = [k \in Callers |-> FsIdle]
    /\ IdleStorage /\ IdleService /\ IdleExtract /\ IdleSession
    /\ IdleStream /\ IdleChat /\ IdleUi /\ IdleApi /\ IdleUpload

SpecFirestoreDelete == InitFirestoreDelete /\ [][NextFirestoreDelete]_vars

-----------------------------------------------------------------------------
(* streamlit_app.py: the app is started again on the saved conversations *)

\* load_local_conversations (lines 234-251): every saved file, with an empty
\* list of messages where the file has none
load_local_conversations(files) ==
    [id \in DOMAIN files |->
        IF "messages" \in DOMAIN files[id] THEN files[id]
        ELSE [k \in DOMAIN files[id] \cup {"messages"} |->
                 IF k = "messages" THEN <<>> ELSE files[id][k]]]

\* lines 326-339: a new session state is initialised from the files
app_restart ==
    /\ ui.pc \in {"idle", "done"}
    /\ LET conversations == load_local_conversations(ui.files) IN
       ui' = [ui EXCEPT
            !.pc = "idle", !.messages = <<>>,
            !.current_conversation_id = <<>>, !.adk_session_id = "None",
            !.local_conversations = conversations,
            !.conversation_counter = Cardinality(DOMAIN conversations) + 1,
            !.prompt = <<>>, !.result = [kind |-> "none"],
            !.final_result = [kind |-> "none"], !.turn_start = 0,
            !.mode = ""]
    /\ UNCHANGED <<storage_vars, service_vars, extract_vars, session_vars,
                   stream_vars, chat_vars,
                   api_vars, firestore_vars, upload_vars>>

NextUiRestart ==
    \/ chat_input
    \/ chat_send
    \/ chat_process
    \/ app_restart

SpecUiRestart == InitUiAlone /\ [][NextUiRestart]_vars

-----------------------------------------------------------------------------
(* main.py: stream_rfp_response, the generator that line 293 builds from    *)
(* the fields of the request as they came                                   *)

\* the text_chunk of one part of a model content (lines 464-468)
TextChunk(part) ==
    IF part.t = "dict" /\ PyHas(part, "text") /\ part.d["text"].t = "str"
       /\ PyStrip(part.d["text"].s) # <<>>
    THEN part.d["text"].s ELSE <<>>

RECURSIVE TextChunks(_)
TextChunks(parts) ==
    IF parts = <<>> THEN <<>>
    ELSE PyConcat(TextChunk(Head(parts)), TextChunks(Tail(parts)))

\* what one event adds to response_text (lines 459-468)
EventText(event) ==
    IF event.t = "dict" /\ PyHas(event, "content")
       /\ event.d["content"].t = "dict" /\ IsModelRole(event.d["content"])
       /\ PyGet(event.d["content"], "parts", PyList(<<>>)).t = "list"
    THEN TextChunks(PyGet(event.d["content"], "parts", PyList(<<>>)).l)
    ELSE <<>>

RECURSIVE StreamedText(_)
StreamedText(events) ==
    IF events = <<>> THEN <<>>
    ELSE PyConcat(EventText(Head(events)), StreamedText(Tail(events)))

\* session_id = request.get("session_id"), passed on at line 293
RequestSessionIds == {"None", "s1"}

\* lines 450-457: the generator is started and calls run_agent_streaming
stream_rfp_response ==
    /\ stream.pc \in {"idle", "final"}
    /\ stream.n < MaxCalls
    /\ \E session_id \in RequestSessionIds, user_input \in Messages :
         stream' = [pc |-> "post", n |-> stream.n + 1,
                    user_id |-> CurrentUser, session_id |-> session_id,
                    message |-> user_input, attachments |-> <<>>,
                    reply |-> [kind |-> "none"], lines |-> <<>>,
                    yielded |-> <<>>, streamed |-> 0,
                    fallback |-> [kind |-> "none"], exc |-> "",
                    sent |-> [type |-> "none"]]
    /\ agent_posts' = <<>>
    /\ UNCHANGED <<storage_vars, service_vars, extract_vars, session_vars,
                   chat_vars, ui_vars,
                   api_vars, firestore_vars, upload_vars>>

\* the line that ends the body: the response (line 521) or the error (line 526)
FinalLine(text, session_id) ==
    IF text.kind = "raise"
    THEN [type |-> "error", session_id |-> "None"]
    ELSE [type |-> "response", content |-> text.value,
          session_id |-> session_id]

\* lines 490-526: run_agent_streaming has ended; with no text streamed, or
\* after an exception, the message is given to run_agent
stream_rfp_response_end ==
    /\ stream.pc \in {"done", "raised"}
    /\ IF stream.pc = "done" /\ PyStrip(StreamedText(stream.yielded)) # <<>>
       THEN /\ agent_posts' = agent_posts
            /\ stream' = [stream EXCEPT !.pc = "final",
                 !.sent = FinalLine([kind |-> "str",
                                     value |-> StreamedText(stream.yielded)],
                                    stream.session_id)]
       ELSE \E reply \in AgentReplies :
            LET result == run_agent(reply) IN
            /\ agent_posts' = Append(agent_posts,
                   Post(FALSE, stream.user_id, stream.session_id,
                        stream.message, stream.attachments))
            /\ stream' = [stream EXCEPT !.pc = "final",
                 !.sent = FinalLine(
                     IF result.kind = "raise"
                     THEN [kind |-> "raise", exc |-> "Exception"]
                     ELSE extract_response_text(result.events),
                     stream.session_id)]
    /\ UNCHANGED <<storage_vars, service_vars, extract_vars, session_vars,
                   chat_vars, ui_vars,
                   api_vars, firestore_vars, upload_vars>>

NextStreamTurn ==
    \/ stream_rfp_response
    \/ run_agent_streaming_post
    \/ run_agent_streaming_line
    \/ run_agent_streaming_fallback
    \/ stream_rfp_response_end

InitStreamTurn ==
    /\ agent_posts = <<>>
    /\ stream = NoStream
    /\ adk_sessions \in
          { [k \in keys |-> SessionData(k[1], k[2], "used")] :
                keys \in SUBSET {<<CurrentUser, "s1">>} }
    /\ next_uuid = 0
    /\ sess_call = NoCall
    /\ IdleStorage /\ IdleService /\ IdleExtract /\ IdleChat /\ IdleUi
    /\ IdleApi /\ IdleFirestore /\ IdleUpload

SpecStreamTurn == InitStreamTurn /\ [][NextStreamTurn]_vars

-----------------------------------------------------------------------------
(* main.py: POST /upload, requests interleaved at `await file.read()`, and  *)
(* services/gcs_service.py: the module-level gcs_service                    *)

MaxUploads == 2

UploadRequests == 1..MaxUploads

\* request_id of the query: absent, or the id of an RFP
UploadRequestIds == {"None", "RFP_1"}

\* get_gcs_service() (lines 214-228): what it returns and what it leaves in
\* the module-level variable; ctor_ok: GCSService() did not raise
get_gcs_service(instance, use_gcs_for_uploads, ctor_ok) ==
    IF ~use_gcs_for_uploads THEN [returns |-> "None", instance |-> instance]
    ELSE IF instance = "None"
    THEN IF ctor_ok
         THEN [returns |-> "GCSService", instance |-> "GCSService"]
         ELSE [returns |-> "None", instance |-> "None"]
    ELSE [returns |-> instance, instance |-> instance]

\* the gcs_service that upload_file uses after the await: its own variable
\* of line 210, never the variable of the module
StorageInstanceOfModule(own, instance) == instance
StorageInstance(own, instance) == own

\* lines 220-252: the file is stored and the response is built
UploadResponse(used, request_id, stored_ok) ==
    IF ~stored_ok THEN [status_code |-> 500]
    ELSE [status_code |-> 200,
          file_url |-> IF used # "None" THEN "gs://"
                       ELSE IF request_id = "None" THEN "/uploads/"
                       ELSE "/rfp-documents/",
          storage_type |-> IF used # "None" THEN "gcs" ELSE "local"]

NewUpload ==
    [pc |-> "start", request_id |-> "None", ctor_ok |-> FALSE,
     stored_ok |-> FALSE, gcs_service |-> "None",
     response |-> [status_code |-> 0]]

\* lines 209-218: up to `await file.read()`
upload_file ==
    /\ \E r \in UploadRequests, request_id \in UploadRequestIds,
          ctor_ok \in BOOLEAN :
       /\ uploads.request[r].pc = "start"
       /\ LET got == get_gcs_service(gcs_service,
                                     uploads.use_gcs_for_uploads, ctor_ok)
          IN /\ gcs_service' = got.instance
             /\ uploads' = [uploads EXCEPT
                   !.started = Append(@, r),
                   !.request[r] = [@ EXCEPT !.pc = "read",
                                      !.request_id = request_id,
                                      !.ctor_ok = ctor_ok,
                                      !.gcs_service = got.returns]]
    /\ UNCHANGED <<storage_vars, service_vars, extract_vars, session_vars,
                   stream_vars, chat_vars, ui_vars, api_vars, firestore_vars>>

\* lines 218-255: the content has been read
upload_file_read ==
    /\ \E r \in UploadRequests, stored_ok \in BOOLEAN :
       /\ uploads.request[r].pc = "read"
       /\ uploads' = [uploads EXCEPT
             !.finished = Append(@, r),
             !.request[r] = [@ EXCEPT !.pc = "done",
                !.stored_ok = stored_ok,
                !.response = UploadResponse(
                    StorageInstance(uploads.request[r].gcs_service,
                                    gcs_service),
                    uploads.request[r].request_id, stored_ok)]]
    /\ gcs_service' = gcs_service
    /\ UNCHANGED <<storage_vars, service_vars, extract_vars, session_vars,
                   stream_vars, chat_vars, ui_vars, api_vars, firestore_vars>>

NextUpload ==
    \/ upload_file
    \/ upload_file_read

InitUpload ==
    /\ gcs_service = "None"
    /\ uploads \in { [use_gcs_for_uploads |-> b, started |-> <<>>,
                      finished |-> <<>>,
                      request |-> [r \in UploadRequests |-> NewUpload]] :
                     b \in BOOLEAN }
    /\ IdleStorage /\ IdleService /\ IdleExtract /\ IdleSession
    /\ IdleStream /\ IdleChat /\ IdleUi /\ IdleApi /\ IdleFirestore

SpecUpload == InitUpload /\ [][NextUpload]_vars

-----------------------------------------------------------------------------
(* Claims about the storage backends (SpecStorage) *)

\* UTF-8 width of a character, as the claims count bytes
Utf8Width(c) ==
    CASE c = "a" -> 1 [] c = "b" -> 1 [] c = "." -> 1 [] c = " " -> 1
      [] c = "e2" -> 2 [] c = "e3" -> 3 [] c = "e4" -> 4

RECURSIVE Utf8ByteLength(_)
Utf8ByteLength(s) ==
    IF s = <<>> THEN 0
    ELSE Head(s).n * Utf8Width(Head(s).c) + Utf8ByteLength(Tail(s))

InlineForm(doc, content) ==
    /\ doc.storage_type = "firestore"
    /\ "content" \in DOMAIN doc /\ doc.content = content
    /\ "content_url" \notin DOMAIN doc

BlobForm(doc) ==
    /\ doc.storage_type = "cloud_storage"
    /\ "content_url" \in DOMAIN doc
    /\ "content" \notin DOMAIN doc
    /\ \E path \in DOMAIN gcs_blobs : doc.content_url = GsPrefix \o path

\* C1: every message document written by ProductionStorage.store_message has
\* the inline form (content in the document, storage_type "firestore") if and
\* only if the UTF-8 byte length of its content is at most 500,000, and has
\* the blob form (storage_type "cloud_storage", a content_url of an uploaded
\* blob, no content field) otherwise; exactly one of the two forms holds.
C1_SizeDecidesPlace ==
    \A id \in DOMAIN fs_messages :
        LET doc == fs_messages[id]
            content == stored[id].content
        IN /\ InlineForm(doc, content) <=> Utf8ByteLength(content) <= 500000
           /\ BlobForm(doc) <=> Utf8ByteLength(content) > 500000
           /\ InlineForm(doc, content) # BlobForm(doc)

\* C1 witness: one message of exactly 500,000 bytes stored inline and one
\* of 500,000 characters but 500,001 bytes stored in the blob store
C1_Witness ==
    \E i, j \in DOMAIN fs_messages :
        /\ Utf8ByteLength(stored[i].content) = 500000
        /\ InlineForm(fs_messages[i], stored[i].content)
        /\ PyLen(stored[j].content) = 500000
        /\ Utf8ByteLength(stored[j].content) = 500001
        /\ BlobForm(fs_messages[j])

\* C9: get_message_content of a stored message returns exactly the content
\* that was stored, in the local and in the production backend, and returns
\* None for an id that was never stored in that backend.
C9_RoundTrip ==
    st_result.op = "get" =>
        IF st_result.id \in DOMAIN stored
           /\ stored[st_result.id].backend = st_result.backend
        THEN st_result.result =
                [kind |-> "str", value |-> stored[st_result.id].content]
        ELSE st_result.result = [kind |-> "none"]

-----------------------------------------------------------------------------
(* Claims about SimpleMessageService.__init__ (SpecService) *)

CloudBackend == svc = CloudService
LocalBackend == svc = LocalService

CloudPreconditions(true_values) ==
    /\ svc_env.CLOUD_AVAILABLE
    /\ svc_env.project_id = "name"
    /\ svc_env.bucket_name = "name"
    /\ svc_env.USE_CLOUD_STORAGE \in true_values
    /\ svc_env.production_ctor = "ok"

-----------------------------------------------------------------------------
(* Claims about services/adk_service.py *)

StreamEnded == stream.pc \in {"done", "raised"}

\* C2: when the streaming POST fails with HTTP 404, or with an error that
\* is neither a connection error nor an HTTP status error, the generator
\* makes one run_agent call for the same user, session, message and
\* attachments and yields exactly the events it returns; a connection error
\* or a status other than 404 makes the generator raise without that call.
C2_FallbackOrRaise ==
    StreamEnded =>
        LET reply == stream.reply IN
        /\ (\/ reply.kind = "request_error"
            \/ (reply.kind = "status" /\ reply.code = 404)) =>
              /\ Len(agent_posts) = 2
              /\ agent_posts[2] = [streaming |-> FALSE,
                                   payload |-> agent_posts[1].payload]
              /\ stream.fallback.kind = "return" =>
                    /\ stream.pc = "done"
                    /\ stream.yielded = stream.fallback.events
        /\ (\/ reply.kind = "connect_error"
            \/ (reply.kind = "status" /\ reply.code # 404)) =>
              /\ stream.pc = "raised"
              /\ Len(agent_posts) = 1

\* C4: for every list of dict events extract_response_text returns a string,
\* never an empty one, and never raises.
C4_NeverRaisesNorEmpty ==
    ex_result.kind # "pending" =>
        /\ ex_result.kind = "str"
        /\ PyLen(ex_result.value) > 0

SessionCallEnded == sess_call.pc \in {"returned", "raised"}

\* C8: get_or_create_session keeps a given session_id and generates a fresh
\* one otherwise; it calls create_session if and only if get_session found
\* no session (returned None or raised); a session that exists at the agent
\* server is returned as it is, never created again and never replaced.
C8_GetOrCreate ==
    SessionCallEnded =>
        LET key == <<sess_call.user_id, sess_call.session_id>> IN
        /\ IF sess_call.given \in {"None", ""}
           THEN key \notin DOMAIN sess_call.before
           ELSE sess_call.session_id = sess_call.given
        /\ sess_call.creates = 1 <=> sess_call.got \in {"none", "raise"}
        /\ sess_call.creates = 0 <=> sess_call.got = "return"
        /\ sess_call.existed =>
              /\ sess_call.creates = 0
              /\ sess_call.pc = "returned"
              /\ sess_call.value = sess_call.before[key]
              /\ adk_sessions = sess_call.before

-----------------------------------------------------------------------------
(* Claims about the request handlers of main.py (SpecChat) *)

ChatResponded == chat.pc = "responded" /\ chat.endpoint = "/rfp-chat"

\* the message stored last, read back from the backend in use
LastMessageId == MsgId(next_msg)
LastMessageDoc ==
    IF svc.storage_type = "cloud" THEN fs_messages[LastMessageId]
    ELSE local_messages[LastMessageId]
LastMessageContent ==
    IF svc.storage_type = "cloud" THEN ProductionGetContent(LastMessageId)
    ELSE LocalGetContent(LastMessageId)

\* the session and the conversation of the turn: the session
\* get_or_create_session returned, and the conversation of the request or
\* the one created for it
TurnIds(body) ==
    /\ body.session_id = sess_call.session_id
    /\ IF chat.request.conversation_id # <<>>
       THEN body.conversation_id = chat.request.conversation_id
       ELSE body.conversation_id \in
               (DOMAIN fs_conversations \cup DOMAIN local_conversations)
               \ (DOMAIN chat.before[2] \cup DOMAIN chat.before[5])

\* C5: when run_agent raises in a non-streaming /rfp-chat turn, the request
\* is answered normally (200) with error = true, response = "RFP Agent
\* Error: <message>", the session_id and conversation_id of the turn and
\* activity_tracker.current_step = "error", and the same string is stored
\* as the assistant message of the conversation.
C5_AgentFailureAnswered ==
    (ChatResponded /\ chat.agent.kind = "raise") =>
        LET body == chat.response.content
            text == PyConcat(<<Run("RFP Agent Error: ", 1)>>, chat.agent.msg)
        IN /\ chat.response.status_code = 200
           /\ "error" \in DOMAIN body /\ body.error = TRUE
           /\ body.response = text
           /\ TurnIds(body)
           /\ body.activity_tracker.current_step = "error"
           /\ LastMessageDoc.role = "assistant"
           /\ LastMessageDoc.conversation_id = body.conversation_id
           /\ LastMessageContent = [kind |-> "str", value |-> text]

\* C5 witness: a turn that created its conversation and in which the agent
\* server could not be reached has been answered
C5_Witness ==
    /\ ChatResponded
    /\ chat.agent.kind = "raise"
    /\ chat.request.conversation_id = <<>>
    /\ chat.response.status_code = 200
    /\ chat.response.content.response =
          <<Run("RFP Agent Error: ", 1),
            Run("Cannot connect to ADK server. Please ensure the ADK server is running on port 8000", 1)>>
    /\ LastMessageDoc.role = "assistant"

\* C6: when run_agent returns events in a non-streaming /rfp-chat turn, the
\* response is extract_response_text(events) with no error flag,
\* current_step "completed" and progress_percentage 100, and the assistant
\* message stored in the conversation has exactly that text as content.
C6_AgentSuccessAnswered ==
    (ChatResponded /\ chat.agent.kind = "return") =>
        LET body == chat.response.content
            text == extract_response_text(chat.agent.events)
        IN text.kind = "str" =>
              /\ chat.response.status_code = 200
              /\ "error" \notin DOMAIN body
              /\ body.response = text.value
              /\ body.activity_tracker.current_step = "completed"
              /\ body.activity_tracker.progress_percentage = 100
              /\ LastMessageDoc.role = "assistant"
              /\ LastMessageContent = [kind |-> "str", value |-> text.value]

\* C7: POST /rfp-chat without user_input is answered 400 "user_input is
\* required", and PUT /conversations/{id}/title for a conversation that does
\* not exist is answered 404 "Conversation not found"; in both cases the
\* stores and the sessions are as they were before the request.
C7_RejectionsReachClient ==
    chat.pc = "responded" =>
        /\ (chat.endpoint = "/rfp-chat" /\ Falsy(chat.request.user_input)) =>
              /\ chat.response.status_code = 400
              /\ chat.response.content.message = "user_input is required"
              /\ Stores = chat.before
        /\ (/\ chat.endpoint = "/conversations/{id}/title"
            /\ chat.request.conversation_id \notin
                  (DOMAIN chat.before[2] \cup DOMAIN chat.before[5])) =>
              /\ chat.response.status_code = 404
              /\ chat.response.content.message = "Conversation not found"
              /\ Stores = chat.before

-----------------------------------------------------------------------------
(* Claims about the Streamlit chat loop (SpecUi) *)

\* the messages appended after the user message of the current turn
TurnReplies == SubSeq(ui.messages, ui.turn_start + 1, Len(ui.messages))

\* C3: at the end of a turn exactly one assistant message has been appended
\* after the prompt: the response of the backend's final event when the
\* stream delivered one, and otherwise (no connection, a status other than
\* 200, a stream without a final event) the response of
\* generate_local_response.
C3_OneAssistantMessage ==
    ui.pc = "done" =>
        /\ Len(TurnReplies) = 1
        /\ TurnReplies[1].role = "assistant"
        /\ IF ui.final_result.kind = "dict"
           THEN TurnReplies[1].content = ui.final_result.d.response
           ELSE TurnReplies[1].content \in LocalResponses

-----------------------------------------------------------------------------
(* Claims C11 to C20 *)

\* C11: whichever backend SimpleMessageService selected, the same calls
\* return the same results: once a call has returned on both a local and a
\* cloud service that were given the same calls so far, the two results are
\* equal (conversations and messages in the same order, the same booleans).
C11_DropInReplacement ==
    st_result.op \in {"create_conversation", "add_message_to_conversation",
                      "update_conversation_title", "get_user_conversations",
                      "get_conversation_messages"}
        => st_result.local = st_result.cloud

\* C12: DELETE /conversations/{conversation_id} deletes the conversation:
\* once the endpoint has answered "Conversation deleted successfully" for a
\* conversation (and nothing was added to it since), get_conversations
\* returns no conversation of that id and get_messages returns no message
\* for it.
C12_DeleteDeletes ==
    /\ api.endpoint = "get_conversations"
         => \A i \in 1..Len(api.returned) : api.returned[i].id \notin api.deleted
    /\ (api.endpoint = "get_messages" /\ api.conversation_id \in api.deleted)
         => api.returned = <<>>

\* C13: GET /conversations/{id}/messages is paginated: at most `limit`
\* messages, oldest first, and with before_timestamp given every returned
\* message is strictly earlier than it.
C13_Paginated ==
    api.endpoint = "get_messages" =>
        /\ Len(api.returned) <= api.limit
        /\ \A i, j \in 1..Len(api.returned) :
              i < j => api.returned[i].timestamp <= api.returned[j].timestamp
        /\ api.before_timestamp # "None" =>
              \A i \in 1..Len(api.returned) :
                 ToString(api.returned[i].timestamp) # api.before_timestamp
                 /\ \E t \in 1..2 : /\ ToString(t) = api.before_timestamp
                                    /\ api.returned[i].timestamp < t

\* C16: in FirestoreService, in every state reached by create_conversation
\* and add_message calls in any order and interleaving, each conversation's
\* message_count equals the number of stored messages of that conversation.
C16_MessageCount ==
    \A c \in DOMAIN fss.conversations :
       fss.conversations[c].message_count = Cardinality(MessagesOf(c))

\* two add_message calls on one conversation overlapped (both read the
\* conversation before either committed) and both have returned
C16_Witness ==
    /\ fss.db = "firestore"
    /\ \A k \in Callers :
          /\ fss_calls[k].op = "add_message"
          /\ fss_calls[k].pc = "done"
          /\ fss_calls[k].result.kind = "return"
          /\ fss_calls[k].snapshot.message_count = 0
          /\ fss_calls[k].conversation_id = fss_calls[1].conversation_id
    /\ fss.conversations[fss_calls[1].conversation_id].message_count = 2

\* what a user can read: the user's conversations and their messages
OwnedBy(user_id) ==
    LET own == {c \in DOMAIN fss.conversations :
                  fss.conversations[c].user_id = user_id}
    IN [conversations |-> [c \in own |-> fss.conversations[c]],
        messages |-> [c \in own |-> MessagesOf(c)]]

\* caller k starts a call in this step
Starts(k) ==
    /\ fss_calls[k].pc \in {"idle", "done"}
    /\ fss_calls'[k] # fss_calls[k]

\* C17: FirestoreService enforces ownership.  add_message to a conversation
\* that does not exist or belongs to another user raises ValueError and
\* changes no conversation and no message; get_conversation returns None for
\* another user's conversation; get_user_conversations returns only the
\* caller's conversations; and a step of a call made with one user's id
\* leaves what every other user can read as it was.
C17_Ownership ==
    [][\A k \in Callers :
        /\ (Starts(k) /\ fss_calls'[k].op = "add_message"
            /\ (\/ fss_calls'[k].conversation_id \notin DOMAIN fss.conversations
                \/ fss.conversations[fss_calls'[k].conversation_id].user_id
                      # fss_calls'[k].user_id))
             => /\ fss_calls'[k].result = Raised("ValueError")
                /\ fss'.conversations = fss.conversations
                /\ fss'.messages = fss.messages
        /\ (Starts(k) /\ fss_calls'[k].op = "get_conversation"
            /\ fss_calls'[k].conversation_id \in DOMAIN fss.conversations
            /\ fss.conversations[fss_calls'[k].conversation_id].user_id
                  # fss_calls'[k].user_id)
             => fss_calls'[k].result = Returned(PyNone)
        /\ (Starts(k) /\ fss_calls'[k].op = "get_user_conversations")
             => \A i \in 1..Len(fss_calls'[k].result.value) :
                   fss_calls'[k].result.value[i].user_id = fss_calls'[k].user_id
        /\ fss_calls'[k] # fss_calls[k]
             => \A other \in Users \ {fss_calls'[k].user_id} :
                   OwnedBy(other)' = OwnedBy(other)
      ]_vars

\* an add_message with another user's id on an existing conversation has
\* been refused
C17_Witness ==
    \E k \in Callers :
       /\ fss_calls[k].op = "add_message"
       /\ fss_calls[k].pc = "done"
       /\ fss_calls[k].conversation_id \in DOMAIN fss.conversations
       /\ fss.conversations[fss_calls[k].conversation_id].user_id
             # fss_calls[k].user_id
       /\ fss_calls[k].result = Raised("ValueError")

\* the messages of a conversation among the stored ones
Remaining(messages, conversation_id) ==
    {k \in DOMAIN messages : messages[k].conversation_id = conversation_id}

\* C18: FirestoreService.delete_conversation deletes a conversation and all
\* its messages.  A call for a conversation that does not exist or belongs
\* to another user returns False and deletes nothing; the loop takes no more
\* turns than there are batches, plus one; and when the call returns True
\* neither the conversation nor any message of it remains.
C18_DeleteAll ==
    [][/\ (Starts(1) /\ fss_calls'[1].op = "delete_conversation"
           /\ (\/ fss_calls'[1].conversation_id \notin DOMAIN fss.conversations
               \/ fss.conversations[fss_calls'[1].conversation_id].user_id
                     # fss_calls'[1].user_id))
            => /\ fss_calls'[1].pc = "done"
               /\ fss_calls'[1].result = Returned(FALSE)
               /\ fss'.conversations = fss.conversations
               /\ fss'.messages = fss.messages
       /\ (fss_calls'[1].op = "delete_conversation"
           /\ fss_calls'[1].pc \in {"batch", "delete"})
            => fss_calls'[1].batches
                  <= (Cardinality(Remaining(fss'.messages, fss_calls'[1].conversation_id))
                        + fss_calls'[1].batches * batch_size) \div batch_size + 1
       /\ (fss_calls'[1].op = "delete_conversation"
           /\ fss_calls'[1].pc = "done"
           /\ fss_calls'[1].result = Returned(TRUE))
            => /\ fss_calls'[1].conversation_id \notin DOMAIN fss'.conversations
               /\ Remaining(fss'.messages, fss_calls'[1].conversation_id) = {}
      ]_vars

\* C14: the local conversation storage of the Streamlit app is persistent:
\* when the app is started again, load_local_conversations gives every
\* conversation that was created, each with the messages that were
\* exchanged in it, in order.
C14_Persistent ==
    [][(ui.pc \in {"idle", "done"} /\ ui'.pc = "idle")
        => \A id \in DOMAIN ui.local_conversations :
             /\ id \in DOMAIN ui'.local_conversations
             /\ ui'.local_conversations[id].messages
                   = ui.local_conversations[id].messages]_vars

\* C19: within one streaming turn the message is posted to /run a second
\* time only after the streaming POST failed before it delivered any event.
C19_PostedOnce ==
    Len(agent_posts) > 1 => stream.streamed = 0

RECURSIVE SequentialResponses(_, _)
SequentialResponses(order, instance) ==
    IF order = <<>> THEN <<>>
    ELSE LET r == uploads.request[Head(order)]
             got == get_gcs_service(instance, uploads.use_gcs_for_uploads,
                                    r.ctor_ok)
         IN (Head(order) :> UploadResponse(got.returns, r.request_id,
                                           r.stored_ok))
            @@ SequentialResponses(Tail(order), got.instance)

====
